---- MODULE Spec2Model ----
(***************************************************************************)
(* The memory module of the repository: the Storage Manager (entity files, *)
(* text / metadata / agentId indices, entity cache) and the Knowledge      *)
(* Graph (relationship files, source / target / type indices, relationship *)
(* cache, breadth-first traversal).                                        *)
(*                                                                         *)
(* Disk and memory are separate variables: a restart keeps the disk and    *)
(* rebuilds the memory the way initialize() does.                          *)
(***************************************************************************)
EXTENDS Integers, Sequences, FiniteSets, TLC

VARIABLES
    files,          \* entity files on disk: [dir, id] -> entity
    dirs,           \* directories that exist below agents/, projects/, templates/
    indexFiles,     \* index/text-index.json, metadata-index.json, agent-id-index.json
    entityCache,    \* StorageManager.entityCache, in insertion order
    indices,        \* StorageManager.indices (text, metadata, agentId)
    relFiles,       \* relationship files on disk: id -> relationship
    relationshipCache, \* KnowledgeGraph.relationshipCache, in insertion order
    relIndices,     \* KnowledgeGraph.indices (source, target, type), sets in insertion order
    clock,          \* the wall clock read by new Date()
    ops,            \* number of operations completed so far
    last,           \* the last operation and what it returned or threw
    stored,         \* history: per id, what the last storeEntity returned (valid while no
                    \* update, delete or restart came after it) and whether deleteEntity
                    \* returned true with no storeEntity of the id since
    onlyStores,     \* history: every call that changed the disk so far was a successful
                    \* storeEntity of an id not stored before
    trav,           \* the traversal in progress (traverseGraph / _traverseBFS)
    fileLocks,      \* StorageManager.fileLocks: the entity file paths that are locked
    calls,          \* per caller, the asynchronous call in flight and where it stands
    wire            \* the MemoryClient, the Unix socket and the server's dispatcher

vars == <<files, dirs, indexFiles, entityCache, indices, relFiles,
          relationshipCache, relIndices, clock, ops, last, stored, onlyStores, trav,
          fileLocks, calls, wire>>

\* the state of the calls that run in steps
asyncVars == <<fileLocks, calls, wire>>

(***************************************************************************)
(* Bounds of the model.                                                    *)
(***************************************************************************)
MaxOps == 3
MaxClock == 2
MaxGraphOps == 3
MaxDepth == 3
MaxLiveOps == 2
maxCacheSize == 2

NoVal == "undefined"

Ids == {"x", "y"}
AgentIdOrder == <<"a1", "a2">>
ProjectIdOrder == <<"p1">>
TemplateIdOrder == <<"t1">>
IdOrder == <<"q", "w", "x", "y", "z">>
RelIdOrder == <<"r1", "r2", "r3", "r4">>

Range(s) == {s[i] : i \in 1..Len(s)}

(***************************************************************************)
(* Entities.  A property the object does not carry is NoVal (strings), 0   *)
(* (timestamps), the empty text or the empty set: all of them falsy in     *)
(* the code's tests.                                                       *)
(***************************************************************************)
Blank ==
    [id |-> NoVal, type |-> NoVal, agentId |-> NoVal, projectId |-> NoVal,
     templateId |-> NoVal, content |-> <<>>, name |-> <<>>, description |-> <<>>,
     metadata |-> {}, tags |-> {}, created |-> 0, updated |-> 0]

Fields == DOMAIN Blank

Truthy(v) == v # NoVal

EmptyMap == [k \in {} |-> {}]

(***************************************************************************)
(* Directories and paths.                                                  *)
(***************************************************************************)
Dir(root, sub) == [root |-> root, sub |-> sub]
SharedDir == Dir("shared", "")
TempDir == Dir("temp", "")
Path(dir, id) == [dir |-> dir, id |-> id]

\* StorageManager._getEntityPath: the directory an entity is written to
_getEntityPath(entity, context) ==
    IF context = "agent" /\ Truthy(entity.agentId)
        THEN Dir("agents", entity.agentId)
    ELSE IF context = "project" /\ Truthy(entity.projectId)
        THEN Dir("projects", entity.projectId)
    ELSE IF context = "template" /\ Truthy(entity.templateId)
        THEN Dir("templates", entity.templateId)
    ELSE IF context = "shared"
        THEN SharedDir
    ELSE TempDir

\* StorageManager._getEntityContext
_getEntityContext(entity) ==
    IF Truthy(entity.agentId) THEN "agent"
    ELSE IF Truthy(entity.projectId) THEN "project"
    ELSE IF Truthy(entity.templateId) THEN "template"
    ELSE "shared"

\* initialize() creates the base directories; sub-directories come with mkdir
DirExists(ds, d) == d.sub = "" \/ d \in ds

(***************************************************************************)
(* Text.  A text is a sequence of characters.                              *)
(***************************************************************************)
Lower(c) == CASE c = "A" -> "a" [] c = "B" -> "b" [] OTHER -> c
IsWordChar(c) == c \in {"a", "b", "A", "B", "_"}
IsSpace(c) == c = " "

\* text.toLowerCase().replace(/[^\w\s]/g, ' ')
Cleaned(text) ==
    [i \in 1..Len(text) |->
        IF IsWordChar(text[i]) \/ IsSpace(text[i]) THEN Lower(text[i]) ELSE " "]

RECURSIVE SplitWs(_, _, _)
\* .split(/\s+/): the maximal runs of non-space characters (empty pieces have
\* length 0 and never pass the filter below)
SplitWs(s, i, cur) ==
    IF i > Len(s) THEN (IF cur = <<>> THEN <<>> ELSE <<cur>>)
    ELSE IF IsSpace(s[i])
        THEN (IF cur = <<>> THEN <<>> ELSE <<cur>>) \o SplitWs(s, i + 1, <<>>)
    ELSE SplitWs(s, i + 1, Append(cur, s[i]))

LongToken(t) == Len(t) > 1

\* StorageManager._tokenizeText
_tokenizeText(text) == SelectSeq(SplitWs(Cleaned(text), 1, <<>>), LongToken)

(***************************************************************************)
(* Indices.                                                                *)
(***************************************************************************)
MapGet(m, k) == IF k \in DOMAIN m THEN m[k] ELSE {}

MapAddAll(m, keys, id) ==
    [k \in DOMAIN m \cup keys |-> MapGet(m, k) \cup (IF k \in keys THEN {id} ELSE {})]

\* StorageManager._indexText
_indexText(text, entityId, t) ==
    IF t = <<>> THEN text ELSE MapAddAll(text, Range(_tokenizeText(t)), entityId)

\* StorageManager._indexMetadata / _indexMetadataValue: metadata is a set of
\* <<key, value>> pairs (an array value gives one pair per item)
_indexMetadata(metadata, entityId, pairs) ==
    LET keys == {p[1] : p \in pairs}
        old(k) == IF k \in DOMAIN metadata THEN metadata[k] ELSE EmptyMap
    IN  [k \in DOMAIN metadata \cup keys |->
            MapAddAll(old(k), {p[2] : p \in {q \in pairs : q[1] = k}}, entityId)]

\* StorageManager._indexAgentId
_indexAgentId(agentIdx, entityId, agentId) ==
    IF ~Truthy(agentId) THEN agentIdx ELSE MapAddAll(agentIdx, {agentId}, entityId)

\* StorageManager._indexEntity, without the _saveIndices() that ends it
IndexEntityMem(idx, entity) ==
    LET t1 == _indexText(idx.text, entity.id, entity.content)
        t2 == _indexText(t1, entity.id, entity.name)
        t3 == _indexText(t2, entity.id, entity.description)
        m1 == _indexMetadata(idx.metadata, entity.id, entity.metadata)
        m2 == _indexMetadata(m1, entity.id, {<<"tags", t>> : t \in entity.tags})
    IN  [text |-> t3, metadata |-> m2,
         agentId |-> _indexAgentId(idx.agentId, entity.id, entity.agentId)]

\* StorageManager._removeEntityFromIndices, without its _saveIndices()
RemoveEntityMem(idx, entity) ==
    [text |-> [k \in DOMAIN idx.text |-> idx.text[k] \ {entity.id}],
     metadata |-> [k \in DOMAIN idx.metadata |->
                    [v \in DOMAIN idx.metadata[k] |-> idx.metadata[k][v] \ {entity.id}]],
     agentId |-> IF Truthy(entity.agentId) /\ entity.agentId \in DOMAIN idx.agentId
                 THEN [idx.agentId EXCEPT ![entity.agentId] = @ \ {entity.id}]
                 ELSE idx.agentId]

EmptyIndices == [text |-> EmptyMap, metadata |-> EmptyMap, agentId |-> EmptyMap]

\* StorageManager._saveIndices: the three snapshot files take the memory's content
_saveIndices(idx) == idx

\* StorageManager._loadIndices into the empty maps of a new StorageManager
_loadIndices(snapshot) == snapshot

(***************************************************************************)
(* The entity cache: a Map in insertion order.                              *)
(***************************************************************************)
CacheHas(cache, id) == \E i \in 1..Len(cache) : cache[i].id = id
CacheGet(cache, id) == cache[CHOOSE i \in 1..Len(cache) : cache[i].id = id]
CacheDelete(cache, id) == SelectSeq(cache, LAMBDA e : e.id # id)

\* a set that moves an existing key behind every other key
CacheSetMovesLast(cache, e) == Append(CacheDelete(cache, e.id), e)

\* Map.set: an existing key keeps its place
CacheSet(cache, e) ==
    IF CacheHas(cache, e.id)
    THEN [i \in 1..Len(cache) |-> IF cache[i].id = e.id THEN e ELSE cache[i]]
    ELSE Append(cache, e)

\* a cache that is never trimmed
CacheUntrimmed(cache, entity) == CacheSet(cache, entity)

\* StorageManager._cacheEntity
_cacheEntity(cache, entity) ==
    LET c == CacheSet(cache, entity)
    IN  IF Len(c) > maxCacheSize
        THEN SubSeq(c, Len(c) - maxCacheSize + 1, Len(c))
        ELSE c

(***************************************************************************)
(* Reading entities.                                                       *)
(***************************************************************************)
\* StorageManager._readEntityFile: null for a missing file, else the entity, cached
_readEntityFile(fs, cache, path) ==
    IF path \in DOMAIN fs
    THEN [found |-> TRUE, ent |-> fs[path], cache |-> _cacheEntity(cache, fs[path])]
    ELSE [found |-> FALSE, ent |-> Blank, cache |-> cache]

\* fs.readdir of agents/, projects/ or templates/: the sub-directories, in name order
SubDirs(ds, root, order) ==
    SelectSeq([i \in 1..Len(order) |-> Dir(root, order[i])], LAMBDA d : d \in ds)

\* the directories _findEntityInContext probes for a context
ContextDirs(ds, context) ==
    CASE context = "agent" -> SubDirs(ds, "agents", AgentIdOrder)
      [] context = "project" -> SubDirs(ds, "projects", ProjectIdOrder)
      [] context = "template" -> SubDirs(ds, "templates", TemplateIdOrder)
      [] context = "shared" -> <<SharedDir>>
      [] OTHER -> <<>>

\* StorageManager._findEntityInContext: the first directory of the context that
\* holds <id>.json; a miss reads nothing and changes nothing
_findEntityInContext(fs, ds, cache, id, context) ==
    LET hits == SelectSeq(ContextDirs(ds, context), LAMBDA d : Path(d, id) \in DOMAIN fs)
    IN  IF hits = <<>>
        THEN [found |-> FALSE, ent |-> Blank, cache |-> cache]
        ELSE _readEntityFile(fs, cache, Path(hits[1], id))

SearchOrder == <<"agent", "project", "template", "shared">>

\* StorageManager.getEntity: the cache first, then the context (all four in
\* turn when none is given)
getEntity(fs, ds, cache, id, context) ==
    IF CacheHas(cache, id)
    THEN [found |-> TRUE, ent |-> CacheGet(cache, id), cache |-> cache]
    ELSE IF context = NoVal
    THEN LET ctxs == SelectSeq(SearchOrder,
                        LAMBDA c : _findEntityInContext(fs, ds, cache, id, c).found)
         IN  IF ctxs = <<>>
             THEN [found |-> FALSE, ent |-> Blank, cache |-> cache]
             ELSE _findEntityInContext(fs, ds, cache, id, ctxs[1])
    ELSE _findEntityInContext(fs, ds, cache, id, context)

(***************************************************************************)
(* Listing.                                                                *)
(***************************************************************************)
RECURSIVE PathsIn(_, _, _)
\* the .json files of the directories, directory by directory, in name order
PathsIn(fs, dseq, i) ==
    IF i > Len(dseq) THEN <<>>
    ELSE SelectSeq([k \in 1..Len(IdOrder) |-> Path(dseq[i], IdOrder[k])],
                   LAMBDA p : p \in DOMAIN fs)
         \o PathsIn(fs, dseq, i + 1)

\* the directories listEntities searches
ListDirs(ds, context) ==
    CASE context = "agent" -> SubDirs(ds, "agents", AgentIdOrder)
      [] context = "project" -> SubDirs(ds, "projects", ProjectIdOrder)
      [] context = "template" -> SubDirs(ds, "templates", TemplateIdOrder)
      [] context = "shared" -> <<SharedDir>>
      [] OTHER -> <<SharedDir>> \o SubDirs(ds, "agents", AgentIdOrder)
                    \o SubDirs(ds, "projects", ProjectIdOrder)
                    \o SubDirs(ds, "templates", TemplateIdOrder)

RECURSIVE CacheAll(_, _, _)
CacheAll(cache, ents, i) ==
    IF i > Len(ents) THEN cache ELSE CacheAll(_cacheEntity(cache, ents[i]), ents, i + 1)

Min(a, b) == IF a < b THEN a ELSE b
Max(a, b) == IF a < b THEN b ELSE a

\* Array.prototype.slice(offset, offset + limit) for offset, limit >= 0
Slice(s, offset, limit) == SubSeq(s, offset + 1, Min(offset + limit, Len(s)))

DefaultLimit == 100

\* a listing answered from the entity cache instead of the directories
listEntitiesFromCache(fs, ds, cache, type, context, limit, offset) ==
    LET entities == SelectSeq(cache, LAMBDA e : type = NoVal \/ e.type = type)
    IN  [entities |-> Slice(entities, offset, limit),
         total |-> Len(entities),
         limit |-> limit,
         offset |-> offset,
         cache |-> cache]

\* StorageManager.listEntities
listEntities(fs, ds, cache, type, context, limit, offset) ==
    LET paths == PathsIn(fs, ListDirs(ds, context), 1)
        read == [i \in 1..Len(paths) |-> fs[paths[i]]]
        entities == SelectSeq(read, LAMBDA e : type = NoVal \/ e.type = type)
    IN  [entities |-> Slice(entities, offset, limit),
         total |-> Len(entities),
         limit |-> limit,
         offset |-> offset,
         cache |-> CacheAll(cache, read, 1)]

(***************************************************************************)
(* What an operation returned or threw.                                    *)
(***************************************************************************)
NoList == [type |-> NoVal, entities |-> <<>>, total |-> 0, limit |-> 0, offset |-> 0]

\* what a search returns: the matching entities that could be read, each with
\* its score as a fraction num / den, and the number of matches
NoSearch == [results |-> <<>>, total |-> 0, limit |-> 0, offset |-> 0]

\* the arguments of a call that are not an id or a context, when a property needs them
NoArgs == <<>>

\* ret: a boolean result ("true", "false"), "" for any other
Returned(op, id, context, ret, ent, list) ==
    [op |-> op, id |-> id, context |-> context, ok |-> TRUE, err |-> "", ret |-> ret,
     ent |-> ent, list |-> list, n |-> ops + 1, args |-> NoArgs, search |-> NoSearch]

Threw(op, id, context, err) ==
    [op |-> op, id |-> id, context |-> context, ok |-> FALSE, err |-> err, ret |-> "",
     ent |-> Blank, list |-> NoList, n |-> ops + 1, args |-> NoArgs, search |-> NoSearch]

\* the record of initialize()
Initialized ==
    [op |-> "initialize", id |-> NoVal, context |-> NoVal, ok |-> TRUE, err |-> "",
     ret |-> "", ent |-> Blank, list |-> NoList, n |-> 0, args |-> NoArgs,
     search |-> NoSearch]

AllIds == Range(IdOrder)

NotStored == [valid |-> FALSE, ent |-> Blank, context |-> NoVal, deleted |-> FALSE]

Forget(id) == [stored EXCEPT ![id].valid = FALSE]

TravIdle == [pc |-> "idle"]

Idle == trav.pc \notin {"running", "common"}

\* the callers whose calls run in steps, and a caller with no call in flight
Callers == {1, 2}
NoCall == [pc |-> "idle"]
NoCalls == [p \in Callers |-> NoCall]

\* fs.writeFile(path, JSON.stringify(entity)): the values an entity carries here
\* (strings, timestamps as ISO strings, arrays and plain objects of strings; an
\* absent property stays absent) are the ones JSON.parse gives back unchanged
FilePut(fs, path, ent) == [p \in DOMAIN fs \cup {path} |-> IF p = path THEN ent ELSE fs[p]]
FileUnlink(fs, path) == [p \in DOMAIN fs \ {path} |-> fs[p]]

\* fs.mkdir(directory, {recursive: true})
Mkdir(ds, dir) == IF dir.sub = "" THEN ds ELSE ds \cup {dir}

graphVars == <<relFiles, relationshipCache, relIndices>>

(***************************************************************************)
(* Relationships.  An index maps a key to a Set of relationship ids, kept  *)
(* here in insertion order, the order listRelationships reads them in.     *)
(***************************************************************************)
NoRel == [id |-> NoVal, sourceId |-> NoVal, targetId |-> NoVal, type |-> NoVal,
          created |-> 0, updated |-> 0]

Rel(id, sourceId, targetId, type) ==
    [NoRel EXCEPT !.id = id, !.sourceId = sourceId, !.targetId = targetId, !.type = type]

SeqGet(m, k) == IF k \in DOMAIN m THEN m[k] ELSE <<>>

\* Set.add and Set.delete
SetAdd(s, id) == IF id \in Range(s) THEN s ELSE Append(s, id)
SetDelete(s, id) == SelectSeq(s, LAMBDA e : e # id)

IndexAdd(m, k, id) ==
    [j \in DOMAIN m \cup {k} |-> IF j = k THEN SetAdd(SeqGet(m, k), id) ELSE m[j]]

\* delete the id under the key, and the key with it when its set becomes empty
IndexRemove(m, k, id) ==
    IF k \notin DOMAIN m THEN m
    ELSE IF SetDelete(m[k], id) = <<>> THEN [j \in DOMAIN m \ {k} |-> m[j]]
    ELSE [m EXCEPT ![k] = SetDelete(@, id)]

EmptyRelIndices == [source |-> EmptyMap, target |-> EmptyMap, type |-> EmptyMap]

\* KnowledgeGraph._indexRelationship
_indexRelationship(idx, r) ==
    [source |-> IndexAdd(idx.source, r.sourceId, r.id),
     target |-> IndexAdd(idx.target, r.targetId, r.id),
     type |-> IndexAdd(idx.type, r.type, r.id)]

\* KnowledgeGraph._removeRelationshipFromIndices
_removeRelationshipFromIndices(idx, r) ==
    [source |-> IndexRemove(idx.source, r.sourceId, r.id),
     target |-> IndexRemove(idx.target, r.targetId, r.id),
     type |-> IndexRemove(idx.type, r.type, r.id)]

\* KnowledgeGraph._cacheRelationship
_cacheRelationship(cache, r) ==
    LET c == CacheSet(cache, r)
    IN  IF Len(c) > maxCacheSize
        THEN SubSeq(c, Len(c) - maxCacheSize + 1, Len(c))
        ELSE c

RECURSIVE LoadRelationships(_, _, _, _)
\* KnowledgeGraph._loadIndices: every relationship file, in readdir order,
\* is indexed and cached
LoadRelationships(rf, idx, cache, i) ==
    IF i > Len(RelIdOrder) THEN [indices |-> idx, cache |-> cache]
    ELSE IF RelIdOrder[i] \notin DOMAIN rf THEN LoadRelationships(rf, idx, cache, i + 1)
    ELSE LoadRelationships(rf, _indexRelationship(idx, rf[RelIdOrder[i]]),
                           _cacheRelationship(cache, rf[RelIdOrder[i]]), i + 1)

\* new KnowledgeGraph(...).initialize()
initializeGraph(rf) == LoadRelationships(rf, EmptyRelIndices, <<>>, 1)

\* KnowledgeGraph.getRelationship: the cache first, then the file
getRelationship(rf, cache, id) ==
    IF CacheHas(cache, id)
    THEN [found |-> TRUE, rel |-> CacheGet(cache, id), cache |-> cache]
    ELSE IF id \in DOMAIN rf
    THEN [found |-> TRUE, rel |-> rf[id], cache |-> _cacheRelationship(cache, rf[id])]
    ELSE [found |-> FALSE, rel |-> NoRel, cache |-> cache]

\* the one element of a singleton
The(S) == CHOOSE v \in S : TRUE

RECURSIVE GetAll(_, _, _, _, _, _)
\* the loops of listRelationships: an id that cannot be read is skipped
\* (g ranges over the one result of getRelationship)
GetAll(rf, cache, ids, i, type, acc) ==
    IF i > Len(ids) THEN [relationships |-> acc, cache |-> cache]
    ELSE The({ GetAll(rf, g.cache, ids, i + 1, type,
                      IF g.found /\ (type = NoVal \/ g.rel.type = type)
                      THEN Append(acc, g.rel) ELSE acc) :
               g \in {getRelationship(rf, cache, ids[i])} })

\* KnowledgeGraph.listRelationships
listRelationships(rf, cache, idx, entityId, type, direction, limit, offset) ==
    LET ids == (IF direction \in {"outgoing", "both"}
                THEN SeqGet(idx.source, entityId) ELSE <<>>)
               \o (IF direction \in {"incoming", "both"}
                   THEN SeqGet(idx.target, entityId) ELSE <<>>)
        all == GetAll(rf, cache, ids, 1, type, <<>>)
    IN  [relationships |-> Slice(all.relationships, offset, limit),
         total |-> Len(all.relationships),
         limit |-> limit,
         offset |-> offset,
         cache |-> all.cache]

(***************************************************************************)
(* Traversal.  relationshipTypes is null (all) or an array of types.       *)
(***************************************************************************)
AnyType == [all |-> TRUE, of |-> {}]
Only(types) == [all |-> FALSE, of |-> types]

\* !(relationshipTypes && !relationshipTypes.includes(type))
TypeWanted(types, type) == types.all \/ type \in types.of

\* the limit _traverseBFS hands to listRelationships
TraverseListLimit == 1000

\* the entity at the other end of the relationship
Connected(r, entityId) == IF r.sourceId = entityId THEN r.targetId ELSE r.sourceId

\* the result and the queue after a connected entity was found
Discovered(t, r, entityId, depth) ==
    LET c == Connected(r, entityId)
        hop == [relationshipId |-> r.id, relationshipType |-> r.type,
                direction |-> IF r.sourceId = entityId THEN "outgoing" ELSE "incoming"]
    IN  [t EXCEPT !.entities = Append(@, c),
                  !.paths = [k \in DOMAIN @ \cup {c} |->
                                IF k = c
                                THEN [distance |-> depth + 1,
                                      path |-> Append(@[entityId].path, hop)]
                                ELSE @[k]],
                  !.queue = Append(@, [entityId |-> c, depth |-> depth + 1]),
                  !.pushes = [@ EXCEPT ![c] = @ + 1]]

WithRelationship(t, r) ==
    [t EXCEPT !.relationships = IF r.id \in Range(@) THEN @ ELSE Append(@, r.id)]

\* a loop body without the visited test
VisitRevisiting(fs, ds, t, cache, r, entityId, depth) ==
    IF ~TypeWanted(t.types, r.type) THEN [t |-> t, cache |-> cache]
    ELSE LET c == Connected(r, entityId)
             t2 == [WithRelationship(t, r) EXCEPT !.visited = @ \cup {c}]
         IN  The({
             IF g.found
             THEN [t |-> Discovered(t2, r, entityId, depth), cache |-> g.cache]
             ELSE [t |-> t2, cache |-> g.cache] :
             g \in {getEntity(fs, ds, cache, c, NoVal)} })

\* a loop body that adds the connected entity whether it was found or not
VisitUnchecked(fs, ds, t, cache, r, entityId, depth) ==
    IF ~TypeWanted(t.types, r.type) THEN [t |-> t, cache |-> cache]
    ELSE LET c == Connected(r, entityId)
             t2 == [WithRelationship(t, r) EXCEPT !.visited = @ \cup {c}]
         IN  The({
             IF c \in t.visited
             THEN [t |-> WithRelationship(t, r), cache |-> cache]
             ELSE [t |-> Discovered(t2, r, entityId, depth), cache |-> g.cache] :
             g \in {getEntity(fs, ds, cache, c, NoVal)} })

\* the body of the for loop of _traverseBFS, for one relationship
Visit(fs, ds, t, cache, r, entityId, depth) ==
    IF ~TypeWanted(t.types, r.type) THEN [t |-> t, cache |-> cache]
    ELSE LET c == Connected(r, entityId)
             t2 == [WithRelationship(t, r) EXCEPT !.visited = @ \cup {c}]
         IN  The({
             IF c \in t.visited
             THEN [t |-> WithRelationship(t, r), cache |-> cache]
             ELSE IF g.found
             THEN [t |-> Discovered(t2, r, entityId, depth), cache |-> g.cache]
             ELSE [t |-> t2, cache |-> g.cache] :
             g \in {getEntity(fs, ds, cache, c, NoVal)} })

RECURSIVE VisitAll(_, _, _, _, _, _, _, _)
\* the for loop of _traverseBFS over the relationships of one entity
\* (v ranges over the one result of the loop body)
VisitAll(fs, ds, t, cache, rels, i, entityId, depth) ==
    IF i > Len(rels) THEN [t |-> t, cache |-> cache]
    ELSE The({ VisitAll(fs, ds, v.t, v.cache, rels, i + 1, entityId, depth) :
               v \in {Visit(fs, ds, t, cache, rels[i], entityId, depth)} })

(***************************************************************************)
(* The Storage Manager's operations.                                       *)
(***************************************************************************)
\* the entity storeEntity writes: id generated when missing, timestamps stamped
Stamped(e, gen) ==
    [e EXCEPT !.id = IF Truthy(e.id) THEN e.id ELSE gen,
              !.created = IF e.created # 0 THEN e.created ELSE clock,
              !.updated = clock]

\* StorageManager.storeEntity(entity, context = 'shared')
StoreEntity(e, context, gen) ==
    /\ Idle
    /\ ops' = ops + 1
    /\ trav' = TravIdle
    /\ UNCHANGED asyncVars
    /\ UNCHANGED <<graphVars, clock>>
    /\ LET ctx == IF context = NoVal THEN "shared" ELSE context
           entity == Stamped(e, gen)
           dir == _getEntityPath(entity, ctx)
           idx == IndexEntityMem(indices, entity)
       IN  IF ~Truthy(e.type)
           THEN /\ last' = [Threw("storeEntity", entity.id, context,
                                  "Entity must have a type") EXCEPT !.args = e]
                /\ UNCHANGED <<files, dirs, indexFiles, entityCache, indices, stored,
                               onlyStores>>
           ELSE /\ dirs' = Mkdir(dirs, dir)
                /\ files' = FilePut(files, Path(dir, entity.id), entity)
                /\ indices' = idx
                /\ indexFiles' = _saveIndices(idx)
                /\ entityCache' = _cacheEntity(entityCache, entity)
                /\ last' = [Returned("storeEntity", entity.id, context, "", entity, NoList)
                                EXCEPT !.args = e]
                /\ stored' = [stored EXCEPT ![entity.id] =
                                [valid |-> TRUE, ent |-> entity, context |-> context,
                                 deleted |-> FALSE]]
                /\ onlyStores' = (onlyStores /\ ~stored[entity.id].valid)

\* StorageManager.getEntity(id, context = null)
GetEntity(id, context) ==
    /\ Idle
    /\ ops' = ops + 1
    /\ trav' = TravIdle
    /\ UNCHANGED asyncVars
    /\ UNCHANGED <<files, dirs, indexFiles, indices, graphVars, clock, stored,
                   onlyStores>>
    /\ LET g == getEntity(files, dirs, entityCache, id, context)
       IN  /\ entityCache' = g.cache
           /\ last' = IF g.found
                      THEN Returned("getEntity", id, context, "", g.ent, NoList)
                      ELSE Threw("getEntity", id, context, "Entity not found")

\* {...entity, ...updates, updated}: the updates win over every attribute
MergedUpdatesWin(entity, updates) ==
    [[f \in Fields |-> IF f \in DOMAIN updates THEN updates[f] ELSE entity[f]]
        EXCEPT !.updated = clock]

\* {...entity, ...updates, id, type, created, updated}
Merged(entity, updates) ==
    [[f \in Fields |-> IF f \in DOMAIN updates THEN updates[f] ELSE entity[f]]
        EXCEPT !.id = entity.id, !.type = entity.type,
               !.created = entity.created, !.updated = clock]

\* context || this._getEntityContext(entity)
ContextOr(context, entity) ==
    IF context # NoVal THEN context ELSE _getEntityContext(entity)

\* StorageManager.updateEntity(id, updates, context = null)
UpdateEntity(id, updates, context) ==
    /\ Idle
    /\ ops' = ops + 1
    /\ stored' = Forget(id)
    /\ onlyStores' = FALSE
    /\ trav' = TravIdle
    /\ UNCHANGED asyncVars
    /\ UNCHANGED <<dirs, graphVars, clock>>
    /\ LET g == getEntity(files, dirs, entityCache, id, context)
           updatedEntity == Merged(g.ent, updates)
           dir == _getEntityPath(updatedEntity, ContextOr(context, g.ent))
           idx == IndexEntityMem(RemoveEntityMem(indices, g.ent), updatedEntity)
       IN  IF ~g.found
           THEN /\ last' = Threw("updateEntity", id, context, "Entity not found")
                /\ entityCache' = g.cache
                /\ UNCHANGED <<files, indexFiles, indices>>
           ELSE IF ~DirExists(dirs, dir)
           THEN \* fs.writeFile into a directory nobody made
                /\ last' = Threw("updateEntity", id, context, "ENOENT")
                /\ entityCache' = g.cache
                /\ UNCHANGED <<files, indexFiles, indices>>
           ELSE /\ files' = FilePut(files, Path(dir, updatedEntity.id), updatedEntity)
                /\ indices' = idx
                /\ indexFiles' = _saveIndices(idx)
                /\ entityCache' = _cacheEntity(g.cache, updatedEntity)
                /\ last' = [Returned("updateEntity", id, context, "", updatedEntity, NoList)
                                EXCEPT !.args = updates]

\* StorageManager.deleteEntity(id, context = null)
DeleteEntity(id, context) ==
    /\ Idle
    /\ ops' = ops + 1
    /\ onlyStores' = FALSE
    /\ trav' = TravIdle
    /\ UNCHANGED asyncVars
    /\ UNCHANGED <<dirs, graphVars, clock>>
    /\ LET g == getEntity(files, dirs, entityCache, id, context)
           path == Path(_getEntityPath(g.ent, ContextOr(context, g.ent)), id)
           idx == RemoveEntityMem(indices, g.ent)
       IN  IF ~g.found
           THEN /\ last' = Threw("deleteEntity", id, context, "Entity not found")
                /\ entityCache' = g.cache
                /\ stored' = Forget(id)
                /\ UNCHANGED <<files, indexFiles, indices>>
           ELSE /\ indices' = idx
                /\ indexFiles' = _saveIndices(idx)
                /\ entityCache' = CacheDelete(g.cache, id)
                /\ IF path \in DOMAIN files
                   THEN /\ files' = FileUnlink(files, path)
                        /\ last' = Returned("deleteEntity", id, context, "true", g.ent, NoList)
                        /\ stored' = [stored EXCEPT ![id].valid = FALSE,
                                                     ![id].deleted = TRUE]
                   ELSE \* fs.unlink of a file that is not there
                        /\ UNCHANGED files
                        /\ last' = Threw("deleteEntity", id, context, "ENOENT")
                        /\ stored' = Forget(id)

\* StorageManager.listEntities(type, context, limit = 100, offset = 0)
ListEntities(type, context, limit, offset) ==
    /\ Idle
    /\ ops' = ops + 1
    /\ trav' = TravIdle
    /\ UNCHANGED asyncVars
    /\ UNCHANGED <<files, dirs, indexFiles, indices, graphVars, clock, stored,
                   onlyStores>>
    /\ LET r == listEntities(files, dirs, entityCache, type, context, limit, offset)
       IN  /\ entityCache' = r.cache
           /\ last' = Returned("listEntities", NoVal, context, "", Blank,
                               [type |-> type, entities |-> r.entities, total |-> r.total,
                                limit |-> r.limit, offset |-> r.offset])

\* time passes
Tick ==
    /\ clock < MaxClock
    /\ clock' = clock + 1
    /\ UNCHANGED <<files, dirs, indexFiles, entityCache, indices, graphVars,
                   ops, last, stored, onlyStores, trav, asyncVars>>

(***************************************************************************)
(* Restart and crashes.  A new process starts with an empty cache, loads   *)
(* the three index snapshot files and indexes every relationship file.     *)
(***************************************************************************)
\* new StorageManager(...).initialize(): _loadIndices into empty maps
initialize(snapshot) == _loadIndices(snapshot)

Restarted(op, id, context) ==
    /\ entityCache' = <<>>
    /\ indices' = initialize(indexFiles')
    /\ stored' = [i \in AllIds |->
                    [stored[i] EXCEPT !.valid = FALSE,
                                      !.deleted = @ /\ ~(op = "crashInStore" /\ i = id)]]
    /\ onlyStores' = FALSE
    /\ relIndices' = initializeGraph(relFiles).indices
    /\ relationshipCache' = initializeGraph(relFiles).cache
    /\ last' = Returned(op, id, context, "", Blank, NoList)
    /\ ops' = ops + 1
    /\ trav' = TravIdle
    /\ fileLocks' = {}
    /\ calls' = NoCalls
    \* (the specifications that restart the server send nothing over the socket)
    /\ UNCHANGED wire
    /\ UNCHANGED <<relFiles, clock>>

\* the process is stopped between two operations and started again
Restart ==
    /\ Idle
    /\ UNCHANGED <<files, dirs, indexFiles>>
    /\ Restarted("restart", NoVal, NoVal)

\* the process stops inside storeEntity, after fs.writeFile of the entity file
\* and before _saveIndices has written anything (point = "entity"), or after
\* _saveIndices has written text-index.json alone (point = "text"); then it
\* is started again
CrashInStore(e, context, gen, point) ==
    /\ Idle
    /\ Truthy(e.type)
    /\ LET ctx == IF context = NoVal THEN "shared" ELSE context
           entity == Stamped(e, gen)
           dir == _getEntityPath(entity, ctx)
           idx == IndexEntityMem(indices, entity)
       IN  /\ dirs' = Mkdir(dirs, dir)
           /\ files' = FilePut(files, Path(dir, entity.id), entity)
           /\ indexFiles' = IF point = "text"
                            THEN [indexFiles EXCEPT !.text = _saveIndices(idx).text]
                            ELSE indexFiles
           /\ Restarted("crashInStore", entity.id, context)

\* the process stops inside deleteEntity, after _removeEntityFromIndices has
\* saved the indices and before fs.unlink; then it is started again
CrashInDelete(id, context) ==
    /\ Idle
    /\ LET g == getEntity(files, dirs, entityCache, id, context)
       IN  /\ g.found
           /\ indexFiles' = _saveIndices(RemoveEntityMem(indices, g.ent))
           /\ UNCHANGED <<files, dirs>>
           /\ Restarted("crashInDelete", id, context)

(***************************************************************************)
(* The Query Engine.  A score is the fraction num / den of two naturals.   *)
(***************************************************************************)
\* QueryEngine._tokenizeText: no token for what is empty or not a string
QueryTokens(query) ==
    IF query = <<>> THEN <<>>
    ELSE SelectSeq(SplitWs(Cleaned(query), 1, <<>>), LongToken)

\* the sequences that list the members of S once each: the orders in which a
\* Set or a Map built from the index sets may hold them
Orderings(S) == {o \in [1..Cardinality(S) -> S] : Range(o) = S}

RECURSIVE CountDistinct(_, _, _, _)
\* a count that takes a token the query repeats once only
CountDistinct(text, tokens, i, acc) ==
    IF i > Len(tokens) THEN acc
    ELSE LET ents == IF tokens[i] \in Range(SubSeq(tokens, 1, i - 1))
                     THEN {} ELSE MapGet(text, tokens[i])
         IN  CountDistinct(text, tokens, i + 1,
                [e \in DOMAIN acc \cup ents |->
                    (IF e \in DOMAIN acc THEN acc[e] ELSE 0)
                        + (IF e \in ents THEN 1 ELSE 0)])

RECURSIVE CountMatches(_, _, _, _)
\* the loop over queryTokens of searchByText: matchingEntityIds, entityId -> count
CountMatches(text, tokens, i, acc) ==
    IF i > Len(tokens) THEN acc
    ELSE LET ents == MapGet(text, tokens[i])
         IN  CountMatches(text, tokens, i + 1,
                [e \in DOMAIN acc \cup ents |->
                    (IF e \in DOMAIN acc THEN acc[e] ELSE 0)
                        + (IF e \in ents THEN 1 ELSE 0)])

Fraction(num, den) == [num |-> num, den |-> den]

\* a.score >= b.score
ScoreAtLeast(a, b) == a.num * b.den >= b.num * a.den

\* the place of an item in an array sorted by (a, b) => b.score - a.score: after
\* the items that score as much or more (Array.prototype.sort is stable)
InsertByScore(sorted, item) ==
    LET k == Cardinality({j \in 1..Len(sorted) : ScoreAtLeast(sorted[j].score, item.score)})
    IN  SubSeq(sorted, 1, k) \o <<item>> \o SubSeq(sorted, k + 1, Len(sorted))

RECURSIVE SortByScore(_, _, _)
SortByScore(items, i, sorted) ==
    IF i > Len(items) THEN sorted
    ELSE SortByScore(items, i + 1, InsertByScore(sorted, items[i]))

\* the filters on agentId and type: they look at the entity cache alone
CacheFilter(cache, ids, opts) ==
    SelectSeq(ids, LAMBDA i :
        /\ (Truthy(opts.agentId)
                => (CacheHas(cache, i) /\ CacheGet(cache, i).agentId = opts.agentId))
        /\ (Truthy(opts.type)
                => (CacheHas(cache, i) /\ CacheGet(cache, i).type = opts.type)))

\* Promise.all over getEntity, then the filter on null.  Every getEntity looks
\* into the cache as it is when the calls are made, before any of them reads a
\* file; an id the cache does not hold is read from the disk.  The result has
\* the entities that were found, with their places in the page, and those
\* among them that were read from the disk.
GetFound(fs, ds, cache, page, context) ==
    LET got == [i \in 1..Len(page) |->
                    IF CacheHas(cache, page[i])
                    THEN [found |-> TRUE, ent |-> CacheGet(cache, page[i]), read |-> FALSE]
                    ELSE The({ [found |-> g.found, ent |-> g.ent, read |-> g.found] :
                               g \in {getEntity(fs, ds, <<>>, page[i], context)} })]
        places == SelectSeq([i \in 1..Len(page) |-> i], LAMBDA i : got[i].found)
    IN  [entities |-> [k \in 1..Len(places) |->
                        [at |-> places[k], entity |-> got[places[k]].ent]],
         reads |-> {got[i].ent : i \in {j \in 1..Len(page) : got[j].read}}]

SearchDefaultLimit == 10

\* QueryEngine.searchByText(query, options); order is the order in which the
\* Map matchingEntityIds holds its keys
searchByText(fs, ds, cache, idx, query, opts, order) ==
    LET queryTokens == QueryTokens(query)
        counts == CountMatches(idx.text, queryTokens, 1, EmptyMap)
        scored == [k \in 1..Len(order) |->
                    [entityId |-> order[k],
                     score |-> Fraction(counts[order[k]], Len(queryTokens))]]
        kept == SelectSeq(scored, LAMBDA item : ScoreAtLeast(item.score, opts.threshold))
        sorted == SortByScore(kept, 1, <<>>)
        ids == CacheFilter(cache, [k \in 1..Len(sorted) |-> sorted[k].entityId], opts)
        results == SelectSeq(sorted, LAMBDA item : item.entityId \in Range(ids))
        page == Slice(results, opts.offset, opts.limit)
        got == GetFound(fs, ds, cache, [k \in 1..Len(page) |-> page[k].entityId],
                        opts.context)
    IN  [results |-> [k \in 1..Len(got.entities) |->
                        [entity |-> got.entities[k].entity,
                         score |-> page[got.entities[k].at].score]],
         total |-> Len(results),
         limit |-> opts.limit,
         offset |-> opts.offset,
         reads |-> got.reads]

\* the options of a search that gives none
NoOptions ==
    [limit |-> SearchDefaultLimit, offset |-> 0, threshold |-> Fraction(0, 1),
     context |-> NoVal, type |-> NoVal, agentId |-> NoVal, matchAll |-> TRUE]

\* a completed search in the record of the last operation
Searched(op, query, opts, r) ==
    [Returned(op, NoVal, opts.context, "", Blank, NoList)
        EXCEPT !.args = [query |-> query, opts |-> opts],
               !.search = [results |-> r.results, total |-> r.total,
                           limit |-> r.limit, offset |-> r.offset]]

\* QueryEngine.searchByText
SearchByText(query, opts) ==
    /\ Idle
    /\ ops' = ops + 1
    /\ trav' = TravIdle
    /\ UNCHANGED asyncVars
    /\ UNCHANGED <<files, dirs, indexFiles, indices, graphVars, clock, stored,
                   onlyStores>>
    /\ \E order \in Orderings(DOMAIN CountMatches(indices.text, QueryTokens(query),
                                                 1, EmptyMap)) :
        \E r \in {searchByText(files, dirs, entityCache, indices, query, opts, order)} :
            \* the reads complete, and cache what they read, in any order
            /\ \E done \in Orderings(r.reads) : entityCache' = CacheAll(entityCache, done, 1)
            /\ last' = Searched("searchByText", query, opts, r)

\* the index sets of the query's pairs that the metadata index holds:
\* matchingSets, for metadata given as the sequence Object.entries reads
MatchingSets(metaIdx, metadata) ==
    LET present == SelectSeq(metadata, LAMBDA kv :
                        kv[1] \in DOMAIN metaIdx /\ kv[2] \in DOMAIN metaIdx[kv[1]])
    IN  [k \in 1..Len(present) |-> metaIdx[present[k][1]][present[k][2]]]

\* the ids in every set / in some set of a non-empty sequence of sets
Intersection(sets) == {e \in sets[1] : \A k \in 1..Len(sets) : e \in sets[k]}
Union(sets) == UNION {sets[k] : k \in 1..Len(sets)}

\* the ids searchByMetadata combines from the matching sets
MatchingIds(metaIdx, metadata, matchAll) ==
    LET sets == MatchingSets(metaIdx, metadata)
    IN  IF sets = <<>> THEN {}
        ELSE IF matchAll THEN Intersection(sets) ELSE Union(sets)

\* QueryEngine.searchByMetadata(metadata, options); order is the order in
\* which the Set matchingEntityIds holds the ids
searchByMetadata(fs, ds, cache, idx, metadata, opts, order) ==
    LET results == CacheFilter(cache, order, opts)
        page == Slice(results, opts.offset, opts.limit)
        got == GetFound(fs, ds, cache, page, opts.context)
    IN  IF MatchingSets(idx.metadata, metadata) = <<>>
        THEN [results |-> <<>>, total |-> 0, limit |-> opts.limit,
              offset |-> opts.offset, reads |-> {}]
        ELSE [results |-> [k \in 1..Len(got.entities) |->
                            [entity |-> got.entities[k].entity]],
              total |-> Len(results),
              limit |-> opts.limit,
              offset |-> opts.offset,
              reads |-> got.reads]

\* QueryEngine.searchByMetadata
SearchByMetadata(metadata, opts) ==
    /\ Idle
    /\ ops' = ops + 1
    /\ trav' = TravIdle
    /\ UNCHANGED asyncVars
    /\ UNCHANGED <<files, dirs, indexFiles, indices, graphVars, clock, stored,
                   onlyStores>>
    /\ \E order \in Orderings(MatchingIds(indices.metadata, metadata, opts.matchAll)) :
        \E r \in {searchByMetadata(files, dirs, entityCache, indices, metadata, opts,
                                   order)} :
            /\ \E done \in Orderings(r.reads) : entityCache' = CacheAll(entityCache, done, 1)
            /\ last' = Searched("searchByMetadata", metadata, opts, r)

(***************************************************************************)
(* The Knowledge Graph's operations.                                       *)
(***************************************************************************)
storeVars == <<files, dirs, indexFiles, entityCache, indices, stored, onlyStores>>

\* the first id no relationship file has: a generated id is a new one
FreshRelIds ==
    LET free == SelectSeq(RelIdOrder, LAMBDA i : i \notin DOMAIN relFiles)
    IN  IF free = <<>> THEN {} ELSE {free[1]}

\* a validation that asks for sourceId and targetId alone
RelationshipErrorNoType(r) ==
    IF ~Truthy(r.sourceId) THEN "Relationship must have a source ID"
    ELSE IF ~Truthy(r.targetId) THEN "Relationship must have a target ID"
    ELSE ""

\* the validation of createRelationship: the message of the error it throws, "" for none
RelationshipError(r) ==
    IF ~Truthy(r.sourceId) THEN "Relationship must have a source ID"
    ELSE IF ~Truthy(r.targetId) THEN "Relationship must have a target ID"
    ELSE IF ~Truthy(r.type) THEN "Relationship must have a type"
    ELSE ""

\* KnowledgeGraph.createRelationship(relationship)
CreateRelationship(r, gen) ==
    /\ Idle
    /\ ops' = ops + 1
    /\ trav' = TravIdle
    /\ UNCHANGED asyncVars
    /\ UNCHANGED <<storeVars, clock>>
    /\ LET rel == [r EXCEPT !.id = IF Truthy(r.id) THEN r.id ELSE gen,
                            !.created = IF r.created # 0 THEN r.created ELSE clock,
                            !.updated = clock]
           err == RelationshipError(r)
       IN  IF err # ""
           THEN /\ last' = [Threw("createRelationship", r.id, NoVal, err) EXCEPT !.args = r]
                /\ UNCHANGED graphVars
           ELSE /\ relFiles' = [i \in DOMAIN relFiles \cup {rel.id} |->
                                    IF i = rel.id THEN rel ELSE relFiles[i]]
                /\ relIndices' = _indexRelationship(relIndices, rel)
                /\ relationshipCache' = _cacheRelationship(relationshipCache, rel)
                /\ last' = [Returned("createRelationship", rel.id, NoVal, "", Blank, NoList)
                                EXCEPT !.args = r]

\* KnowledgeGraph.deleteRelationship(id)
DeleteRelationship(id) ==
    /\ Idle
    /\ ops' = ops + 1
    /\ trav' = TravIdle
    /\ UNCHANGED asyncVars
    /\ UNCHANGED <<storeVars, clock>>
    /\ LET g == getRelationship(relFiles, relationshipCache, id)
       IN  IF ~g.found
           THEN \* the error getRelationship throws carries no code: it is thrown on
                /\ last' = Threw("deleteRelationship", id, NoVal, "Relationship not found")
                /\ UNCHANGED graphVars
           ELSE /\ relIndices' = _removeRelationshipFromIndices(relIndices, g.rel)
                /\ relationshipCache' = CacheDelete(g.cache, id)
                /\ relFiles' = [i \in DOMAIN relFiles \ {id} |-> relFiles[i]]
                /\ last' = IF id \in DOMAIN relFiles
                           THEN Returned("deleteRelationship", id, NoVal, "true", Blank, NoList)
                           ELSE \* fs.unlink fails with ENOENT
                                Returned("deleteRelationship", id, NoVal, "false", Blank, NoList)

\* {...relationship, ...updates}
SpreadRelationship(relationship, updates) ==
    [f \in DOMAIN relationship |->
        IF f \in DOMAIN updates THEN updates[f] ELSE relationship[f]]

\* a merge in which the updates win over every property but the updated stamp
MergedRelationshipUpdatesWin(relationship, updates) ==
    [SpreadRelationship(relationship, updates) EXCEPT !.updated = clock]

\* {...relationship, ...updates, id, sourceId, targetId,
\*  type: updates.type || relationship.type, created, updated}
MergedRelationship(relationship, updates) ==
    [SpreadRelationship(relationship, updates) EXCEPT
        !.id = relationship.id,
        !.sourceId = relationship.sourceId,
        !.targetId = relationship.targetId,
        !.type = IF "type" \in DOMAIN updates /\ Truthy(updates.type)
                 THEN updates.type ELSE relationship.type,
        !.created = relationship.created,
        !.updated = clock]

\* KnowledgeGraph.updateRelationship(id, updates)
UpdateRelationship(id, updates) ==
    /\ Idle
    /\ ops' = ops + 1
    /\ trav' = TravIdle
    /\ UNCHANGED asyncVars
    /\ UNCHANGED <<storeVars, clock>>
    /\ LET g == getRelationship(relFiles, relationshipCache, id)
           updatedRelationship == MergedRelationship(g.rel, updates)
       IN  IF ~g.found
           THEN /\ last' = [Threw("updateRelationship", id, NoVal, "Relationship not found")
                                EXCEPT !.args = updates]
                /\ UNCHANGED graphVars
           ELSE /\ relFiles' = [i \in DOMAIN relFiles \cup {id} |->
                                    IF i = id THEN updatedRelationship ELSE relFiles[i]]
                /\ relIndices' = _indexRelationship(
                                    _removeRelationshipFromIndices(relIndices, g.rel),
                                    updatedRelationship)
                /\ relationshipCache' = _cacheRelationship(g.cache, updatedRelationship)
                /\ last' = [Returned("updateRelationship", id, NoVal, "",
                                     updatedRelationship, NoList)
                                EXCEPT !.args = updates]

\* KnowledgeGraph.listRelationships(entityId, type, direction, limit, offset)
ListRelationships(entityId, type, direction, limit, offset) ==
    /\ Idle
    /\ ops' = ops + 1
    /\ trav' = TravIdle
    /\ UNCHANGED asyncVars
    /\ UNCHANGED <<storeVars, relFiles, relIndices, clock>>
    /\ \E r \in {listRelationships(relFiles, relationshipCache, relIndices, entityId, type,
                                    direction, limit, offset)} :
        /\ relationshipCache' = r.cache
        /\ last' = [Returned("listRelationships", entityId, NoVal, "", Blank,
                             [type |-> type, entities |-> r.relationships,
                              total |-> r.total, limit |-> r.limit, offset |-> r.offset])
                        EXCEPT !.args = [direction |-> direction]]

\* the ids getEntity(id) resolves in the current state
Resolvable == {i \in AllIds : getEntity(files, dirs, entityCache, i, NoVal).found}

\* KnowledgeGraph.traverseGraph, up to the call of _traverseBFS
TraverseStart(startEntityId, relationshipTypes, maxDepth, direction) ==
    /\ Idle
    /\ UNCHANGED <<files, dirs, indexFiles, indices, stored, onlyStores, graphVars, clock,
                   asyncVars>>
    /\ LET g == getEntity(files, dirs, entityCache, startEntityId, NoVal)
       IN  /\ entityCache' = g.cache
           /\ IF ~g.found
              THEN /\ last' = Threw("traverseGraph", startEntityId, NoVal, "Entity not found")
                   /\ ops' = ops + 1
                   /\ trav' = [pc |-> "threw", start |-> startEntityId,
                               resolvable |-> Resolvable]
              ELSE /\ UNCHANGED <<last, ops>>
                   /\ trav' = [pc |-> "running",
                               start |-> startEntityId,
                               types |-> relationshipTypes,
                               maxDepth |-> maxDepth,
                               direction |-> direction,
                               queue |-> <<[entityId |-> startEntityId, depth |-> 0]>>,
                               visited |-> {startEntityId},
                               entities |-> <<startEntityId>>,
                               relationships |-> <<>>,
                               paths |-> [k \in {startEntityId} |->
                                            [distance |-> 0, path |-> <<>>]],
                               pushes |-> [i \in AllIds |->
                                            IF i = startEntityId THEN 1 ELSE 0],
                               resolvable |-> Resolvable]

\* one turn of the while loop of _traverseBFS: the head of the queue is taken
\* off and, below maxDepth, its relationships are listed and visited
Turn(fs, ds, rf, idx, t, cache, relCache) ==
    LET head == Head(t.queue)
        rest == [t EXCEPT !.queue = Tail(@)]
    IN  IF head.depth >= t.maxDepth
        THEN [t |-> rest, cache |-> cache, relCache |-> relCache]
        ELSE The({ The({ [t |-> v.t, cache |-> v.cache, relCache |-> l.cache] :
                         v \in {VisitAll(fs, ds, rest, cache, l.relationships, 1,
                                         head.entityId, head.depth)} }) :
                   l \in {listRelationships(rf, relCache, idx, head.entityId, NoVal,
                                            t.direction, TraverseListLimit, 0)} })

\* the traversal after its next turn; traverseGraph returns when the queue is empty
AfterTurn ==
    LET r == Turn(files, dirs, relFiles, relIndices, trav, entityCache, relationshipCache)
    IN  [r EXCEPT !.t.pc = IF r.t.queue = <<>> THEN "done" ELSE "running"]

TraverseStep ==
    /\ trav.pc = "running"
    /\ \E r \in {AfterTurn} :
        /\ trav' = r.t
        /\ entityCache' = r.cache
        /\ relationshipCache' = r.relCache
        /\ last' = IF r.t.pc = "done"
                   THEN Returned("traverseGraph", trav.start, NoVal, "", Blank, NoList)
                   ELSE last
        /\ ops' = IF r.t.pc = "done" THEN ops + 1 ELSE ops
    /\ UNCHANGED <<files, dirs, indexFiles, indices, stored, onlyStores, relFiles,
                   relIndices, clock, asyncVars>>

(***************************************************************************)
(* findCommonConnections: the traversals of Promise.all run side by side,  *)
(* one turn of one of them at a time.                                      *)
(***************************************************************************)
\* a traversal as traverseGraph hands it to _traverseBFS
StartedRun(startEntityId, relationshipTypes, maxDepth, direction) ==
    [pc |-> "running", start |-> startEntityId, types |-> relationshipTypes,
     maxDepth |-> maxDepth, direction |-> direction,
     queue |-> <<[entityId |-> startEntityId, depth |-> 0]>>,
     visited |-> {startEntityId}, entities |-> <<startEntityId>>,
     relationships |-> <<>>,
     paths |-> [k \in {startEntityId} |-> [distance |-> 0, path |-> <<>>]],
     pushes |-> [i \in AllIds |-> IF i = startEntityId THEN 1 ELSE 0],
     resolvable |-> Resolvable]

\* Array.from(new Set(ids)): each id once, at its first place
Distinct(ids) ==
    SelectSeq([i \in 1..Len(ids) |-> IF ids[i] \in Range(SubSeq(ids, 1, i - 1))
                                      THEN NoVal ELSE ids[i]],
              LAMBDA id : id # NoVal)

\* the ids of the first traversal's entities, with no intersection
FirstEntityIds(runs) == Distinct(runs[1].entities)

\* commonEntityIds before the given ids are removed: the ids of the first
\* traversal's entities that every other traversal has too
CommonEntityIds(runs) ==
    SelectSeq(Distinct(runs[1].entities),
              LAMBDA id : \A i \in 2..Len(runs) : id \in Range(runs[i].entities))

RECURSIVE TotalDistance(_, _, _)
\* traversalResults.reduce((sum, result) => sum + (result.paths[id]?.distance || 0), 0)
TotalDistance(runs, i, id) ==
    IF i > Len(runs) THEN 0
    ELSE (IF id \in DOMAIN runs[i].paths THEN runs[i].paths[id].distance ELSE 0)
            + TotalDistance(runs, i + 1, id)

\* the place of an item in an array sorted by (a, b) => a.avgDistance - b.avgDistance:
\* after the items whose average is as small or smaller
InsertByDistance(sorted, item) ==
    LET k == Cardinality({j \in 1..Len(sorted) :
                            sorted[j].avgDistance.num * item.avgDistance.den
                                <= item.avgDistance.num * sorted[j].avgDistance.den})
    IN  SubSeq(sorted, 1, k) \o <<item>> \o SubSeq(sorted, k + 1, Len(sorted))

RECURSIVE SortByDistance(_, _, _)
SortByDistance(items, i, sorted) ==
    IF i > Len(items) THEN sorted
    ELSE SortByDistance(items, i + 1, InsertByDistance(sorted, items[i]))

\* findCommonConnections once every traversal has returned: the intersection,
\* the given ids removed, Promise.all over getEntity (it rejects when one of
\* them throws), the sort by average distance, the slice
commonConnections(fs, ds, cache, runs, entityIds, limit) ==
    LET commonEntityIds == SelectSeq(CommonEntityIds(runs),
                                     LAMBDA id : id \notin Range(entityIds))
        got == GetFound(fs, ds, cache, commonEntityIds, NoVal)
        items == [k \in 1..Len(got.entities) |->
                    [entity |-> got.entities[k].entity.id,
                     avgDistance |-> Fraction(TotalDistance(runs, 1, got.entities[k].entity.id),
                                              Len(runs))]]
        sorted == SortByDistance(items, 1, <<>>)
    IN  [ok |-> Len(got.entities) = Len(commonEntityIds),
         entities |-> [k \in 1..Min(limit, Len(sorted)) |-> sorted[k].entity],
         reads |-> got.reads]

\* KnowledgeGraph.findCommonConnections(entityIds, options) up to the first
\* await of its traversals: each traverseGraph asks getEntity for its start
\* entity, all of them before any file is read
CommonStart(entityIds, relationshipTypes, maxDepth, direction, limit) ==
    /\ Idle
    /\ UNCHANGED <<files, dirs, indexFiles, indices, stored, onlyStores, graphVars, clock,
                   asyncVars>>
    /\ IF Len(entityIds) < 2
       THEN /\ last' = [Threw("findCommonConnections", NoVal, NoVal,
                              "At least two entity IDs are required")
                            EXCEPT !.args = entityIds]
            /\ ops' = ops + 1
            /\ trav' = [pc |-> "commonThrew", ids |-> entityIds]
            /\ UNCHANGED entityCache
       ELSE \E g \in {GetFound(files, dirs, entityCache, entityIds, NoVal)} :
            /\ \E done \in Orderings(g.reads) :
                    entityCache' = CacheAll(entityCache, done, 1)
            /\ IF Len(g.entities) < Len(entityIds)
               THEN /\ last' = [Threw("findCommonConnections", NoVal, NoVal,
                                      "Entity not found") EXCEPT !.args = entityIds]
                    /\ ops' = ops + 1
                    /\ trav' = [pc |-> "commonThrew", ids |-> entityIds]
               ELSE /\ trav' = [pc |-> "common", ids |-> entityIds, limit |-> limit,
                                runs |-> [k \in 1..Len(entityIds) |->
                                            StartedRun(entityIds[k], relationshipTypes,
                                                       maxDepth, direction)]]
                    /\ UNCHANGED <<last, ops>>

\* one turn of the while loop of one of the traversals; when it was the last
\* turn of the last traversal, findCommonConnections goes on and returns
CommonStep(k) ==
    /\ trav.pc = "common"
    /\ k \in 1..Len(trav.runs)
    /\ trav.runs[k].queue # <<>>
    /\ UNCHANGED <<files, dirs, indexFiles, indices, stored, onlyStores, relFiles,
                   relIndices, clock, asyncVars>>
    /\ \E r \in {Turn(files, dirs, relFiles, relIndices, trav.runs[k], entityCache,
                       relationshipCache)} :
        LET runs == [trav.runs EXCEPT ![k] = r.t]
        IN  /\ relationshipCache' = r.relCache
            /\ IF \E j \in 1..Len(runs) : runs[j].queue # <<>>
               THEN /\ trav' = [trav EXCEPT !.runs = runs]
                    /\ entityCache' = r.cache
                    /\ UNCHANGED <<last, ops>>
               ELSE \E c \in {commonConnections(files, dirs, r.cache, runs, trav.ids,
                                                trav.limit)} :
                    /\ \E done \in Orderings(c.reads) :
                            entityCache' = CacheAll(r.cache, done, 1)
                    /\ trav' = [trav EXCEPT !.runs = runs, !.pc = "commonDone"]
                    /\ ops' = ops + 1
                    /\ last' = IF c.ok
                               THEN [Returned("findCommonConnections", NoVal, NoVal, "", Blank,
                                              [type |-> NoVal, entities |-> c.entities,
                                               total |-> Len(c.entities),
                                               limit |-> trav.limit, offset |-> 0])
                                        EXCEPT !.args = trav.ids]
                               ELSE [Threw("findCommonConnections", NoVal, NoVal,
                                           "Entity not found") EXCEPT !.args = trav.ids]

(***************************************************************************)
(* Combined and semantic search.  A score is a fraction; the weight 0.6 of *)
(* the text score is 6/10 and the score of a related entity 5/10.          *)
(***************************************************************************)
\* the results of search from the results of the text search: the result Map
\* keyed by entity id, the combined score, the sort, the page
Combined(textResults, opts) ==
    LET found == textResults.results
        ids == Distinct([k \in 1..Len(found) |-> found[k].entity.id])
        \* resultMap.set: a key that is set again keeps its place and takes the value
        item(id) == found[CHOOSE k \in 1..Len(found) :
                            /\ found[k].entity.id = id
                            /\ \A j \in k + 1..Len(found) : found[j].entity.id # id]
        results == [k \in 1..Len(ids) |->
                        [entityId |-> ids[k],
                         score |-> Fraction(6 * item(ids[k]).score.num,
                                            10 * item(ids[k]).score.den),
                         related |-> FALSE]]
    IN  The({ [results |-> Slice(sorted, opts.offset, opts.limit),
               total |-> Len(sorted),
               limit |-> opts.limit,
               offset |-> opts.offset,
               reads |-> textResults.reads] :
              sorted \in {SortByScore(results, 1, <<>>)} })

\* QueryEngine.search(query, options) for a query that is a string: the text
\* search with twice the limit, then the combination
search(fs, ds, cache, idx, query, opts, order) ==
    The({ Combined(textResults, opts) :
          textResults \in {searchByText(fs, ds, cache, idx, query,
                                [NoOptions EXCEPT !.limit = opts.limit * 2,
                                                  !.context = opts.context,
                                                  !.type = opts.type,
                                                  !.agentId = opts.agentId], order)} })

\* the entity ids of a result list, in its order
ResultIds(results) == [k \in 1..Len(results) |-> results[k].entityId]

\* QueryEngine.search(query, options) with a string for the query.  args.text
\* is history: what searchByText gives for the same query and options in the
\* state the search started in, the Map holding its keys in the same order
Search(query, opts) ==
    /\ Idle
    /\ ops' = ops + 1
    /\ trav' = TravIdle
    /\ UNCHANGED asyncVars
    /\ UNCHANGED <<files, dirs, indexFiles, indices, graphVars, clock, stored,
                   onlyStores>>
    /\ \E order \in Orderings(DOMAIN CountMatches(indices.text, QueryTokens(query),
                                                 1, EmptyMap)) :
        \E r \in {search(files, dirs, entityCache, indices, query, opts, order)} :
        \E t \in {searchByText(files, dirs, entityCache, indices, query, opts, order)} :
        \E done \in Orderings(r.reads) :
            /\ entityCache' = CacheAll(entityCache, done, 1)
            /\ last' = [Searched("search", query, opts, r)
                            EXCEPT !.args = [query |-> query, opts |-> opts,
                                             text |-> [ids |-> [k \in 1..Len(t.results) |->
                                                                t.results[k].entity.id],
                                                       total |-> t.total]]]

RECURSIVE RunTraversal(_, _, _, _, _, _, _)
\* the while loop of _traverseBFS, run until the queue is empty
RunTraversal(fs, ds, rf, idx, t, cache, relCache) ==
    IF t.queue = <<>> THEN [t |-> t, cache |-> cache, relCache |-> relCache]
    ELSE The({ RunTraversal(fs, ds, rf, idx, r.t, r.cache, r.relCache) :
               r \in {Turn(fs, ds, rf, idx, t, cache, relCache)} })

\* the least limit semanticSearch hands to findRelatedEntities
RelatedLeastLimit == 5

\* what findRelatedEntities makes of the traversal: the start entity left
\* out, the stable sort by distance, the slice
RelatedOf(t, entityId, limit) ==
    LET others == SelectSeq(t.entities, LAMBDA id : id # entityId)
        items == [k \in 1..Len(others) |->
                    [entity |-> others[k],
                     avgDistance |-> Fraction(t.paths[others[k]].distance, 1)]]
    IN  The({ [k \in 1..Min(limit, Len(sorted)) |-> sorted[k].entity] :
              sorted \in {SortByDistance(items, 1, <<>>)} })

\* KnowledgeGraph.findRelatedEntities(entityId, {maxDepth, limit}): the
\* traversal in both directions from the entity, which has to exist
findRelatedEntities(fs, ds, rf, idx, cache, relCache, entityId, maxDepth, limit) ==
    The({ IF ~g.found
          THEN [ok |-> FALSE, entities |-> <<>>, cache |-> g.cache, relCache |-> relCache]
          ELSE The({ [ok |-> TRUE,
                      entities |-> RelatedOf(run.t, entityId, limit),
                      cache |-> run.cache, relCache |-> run.relCache] :
                     run \in {RunTraversal(fs, ds, rf, idx,
                                    StartedRun(entityId, AnyType, maxDepth, "both"),
                                    g.cache, relCache)} }) :
          g \in {getEntity(fs, ds, cache, entityId, NoVal)} })

\* results that are not cut to the limit
NotTruncated(results, limit) == results

\* searchResults.results.slice(0, limit)
Truncated(results, limit) == Slice(results, 0, limit)

RECURSIVE WithRelated(_, _, _)
\* the loop over relatedResults.entities: an entity no result holds yet is
\* pushed with score 0.5 and related: true
WithRelated(results, entities, i) ==
    IF i > Len(entities) THEN results
    ELSE WithRelated(
            IF \E k \in 1..Len(results) : results[k].entityId = entities[i]
            THEN results
            ELSE Append(results, [entityId |-> entities[i], score |-> Fraction(5, 10),
                                  related |-> TRUE]),
            entities, i + 1)

\* the options of semanticSearch that the model varies
SemanticOptions(limit, includeRelated, maxRelatedDepth) ==
    [NoOptions EXCEPT !.limit = limit] @@
    [includeRelated |-> includeRelated, maxRelatedDepth |-> maxRelatedDepth]

\* QueryEngine.semanticSearch(query, options)
SemanticSearch(query, opts) ==
    /\ Idle
    /\ ops' = ops + 1
    /\ trav' = TravIdle
    /\ UNCHANGED asyncVars
    /\ UNCHANGED <<files, dirs, indexFiles, indices, relFiles, relIndices, clock, stored,
                   onlyStores>>
    /\ \E order \in Orderings(DOMAIN CountMatches(indices.text, QueryTokens(query),
                                                 1, EmptyMap)) :
        \E r \in {search(files, dirs, entityCache, indices, query, opts, order)} :
        \E done \in Orderings(r.reads) :
        \E cached \in {CacheAll(entityCache, done, 1)} :
            LET found == [k \in 1..Len(r.results) |-> r.results[k].entityId]
                record(results) ==
                    [Searched("semanticSearch", query, opts,
                              [r EXCEPT !.results = results])
                        EXCEPT !.args = [query |-> query, opts |-> opts, found |-> found]]
            IN  IF ~(opts.includeRelated /\ Len(r.results) > 0)
                THEN /\ entityCache' = cached
                     /\ UNCHANGED relationshipCache
                     /\ last' = record(r.results)
                ELSE \E f \in {findRelatedEntities(files, dirs, relFiles, relIndices, cached,
                                    relationshipCache, r.results[1].entityId,
                                    opts.maxRelatedDepth,
                                    Max(RelatedLeastLimit, opts.limit - Len(r.results)))} :
                     /\ entityCache' = f.cache
                     /\ relationshipCache' = f.relCache
                     /\ last' = IF f.ok
                                THEN record(Truncated(
                                        SortByScore(WithRelated(r.results, f.entities, 1),
                                                    1, <<>>),
                                        opts.limit))
                                ELSE [Threw("semanticSearch", NoVal, opts.context,
                                            "Entity not found")
                                        EXCEPT !.args = [query |-> query, opts |-> opts,
                                                         found |-> found]]

(***************************************************************************)
(* The MemoryClient, the socket and MemoryServer._handleRequest.  A message *)
(* is one JSON text as socket.write sends it; a 'data' event hands over one *)
(* written message or several that the stream has joined.                  *)
(***************************************************************************)
MaxRequests == 2
RequestIds == 1..MaxRequests

NoParams == [entity |-> Blank, id |-> NoVal, context |-> NoVal]
NoRequest == [operation |-> NoVal, params |-> NoParams, requestId |-> 0]
\* a response: error and message of a tagged error, operation and result of
\* an answer; the code sets no requestId, which reads as 0.  answers is
\* history: the request the response was written for
NoResult == [ret |-> "", ent |-> Blank, list |-> NoList]
NoResponse == [error |-> FALSE, message |-> NoVal, operation |-> NoVal,
               result |-> NoResult, requestId |-> 0, answers |-> 0]

\* MemoryClient.maxReconnectAttempts
maxReconnectAttempts == 5

NoWire ==
    [connected |-> FALSE,        \* MemoryClient.connected
     socket |-> "connecting",    \* MemoryClient.socket: connecting, open or closed
     reconnectAttempts |-> 0,    \* MemoryClient.reconnectAttempts
     timer |-> FALSE,            \* the setTimeout of handleDisconnect is pending
     reconnects |-> 0,           \* history: connect() calls made by the timer since the
                                 \* socket was last open (or since construction)
     reconnectFailed |-> 0,      \* history: 'reconnect_failed' events emitted
     requestId |-> 1,            \* MemoryClient.requestId
     requestQueue |-> <<>>,      \* MemoryClient.requestQueue
     pendingRequests |-> {},     \* the keys of MemoryClient.pendingRequests
     buffer |-> <<>>,            \* MemoryClient.buffer, the messages in it
     toServer |-> <<>>,          \* written by the client, not yet read by the server
     serverBuffer |-> <<>>,      \* buffer of the server's 'data' handler
     pc |-> "idle",              \* _handleRequest: idle, or called (awaiting its handler)
     call |-> NoRequest,         \* the request _handleRequest is handling
     opsAt |-> 0,                \* history: ops when the handler was called
     toClient |-> <<>>,          \* written by the server, not yet read by the client
     promises |-> [i \in RequestIds |-> "none"],  \* history: the promises of sendRequest
     arrived |-> {},             \* history: the requests whose reply the client has read
     emitted |-> 0,              \* 'response' events emitted
     request |-> NoRequest,      \* history: the request answered last
     response |-> NoResponse,    \* history: the response to it
     invoked |-> FALSE]          \* history: a handler was called for it

\* the keys of MemoryServer.requestHandlers, an object literal
HandlerNames ==
    {"store_entity", "get_entity", "update_entity", "delete_entity", "list_entities",
     "create_relationship", "get_relationship", "update_relationship",
     "delete_relationship", "list_relationships", "search_by_text", "search_by_vector",
     "search_by_metadata", "traverse_graph", "findEntitiesByAgentId", "getAgentMemory",
     "storeAgentMemory"}

\* the handlers the model calls
ModelledHandlers == {"store_entity", "get_entity"}

\* the functions every object literal inherits from Object.prototype, of
\* which the model sends the first
InheritedFunctions == {"constructor", "toString", "valueOf", "hasOwnProperty"}

\* this.requestHandlers[operation]: a handler, a function of Object.prototype
\* or undefined
LookUp(operation) ==
    IF operation \in HandlerNames THEN "handler"
    ELSE IF operation \in InheritedFunctions THEN "inherited"
    ELSE "undefined"

TaggedError(message, request) ==
    [NoResponse EXCEPT !.error = TRUE, !.message = message, !.answers = request.requestId]

Answer(operation, result, request) ==
    [NoResponse EXCEPT !.operation = operation, !.result = result,
                       !.answers = request.requestId]

\* the checks a handler makes before it calls the store: the message of the
\* error it throws, NoVal when it throws none
HandlerValidation(operation, params) ==
    \* (an entity that is absent is Blank: no request sends an empty object)
    IF operation = "store_entity" /\ params.entity = Blank THEN "Entity is required"
    ELSE IF operation = "get_entity" /\ ~Truthy(params.id) THEN "Entity ID is required"
    ELSE NoVal

\* _handleRequest up to its await: the response it returns at once, NoResponse
\* when it calls the store.  Object.prototype.constructor(params) returns
\* params; the message `Unsupported operation: ${operation}` is its first words
Immediate(request) ==
    IF ~Truthy(request.operation) \/ LookUp(request.operation) = "undefined"
    THEN TaggedError("Unsupported operation", request)
    ELSE IF LookUp(request.operation) = "inherited"
    THEN Answer(request.operation, [NoResult EXCEPT !.ent = request.params.entity], request)
    ELSE IF HandlerValidation(request.operation, request.params) # NoVal
    THEN TaggedError(HandlerValidation(request.operation, request.params), request)
    ELSE NoResponse

\* net.createConnection's callback: connected, then processQueue sends what
\* sendRequest queued
Connect ==
    /\ wire.socket = "connecting"
    /\ wire' = [wire EXCEPT
            !.connected = TRUE,
            !.socket = "open",
            !.reconnectAttempts = 0,
            !.reconnects = 0,
            !.requestQueue = <<>>,
            !.pendingRequests = @ \cup {wire.requestQueue[k].requestId :
                                            k \in 1..Len(wire.requestQueue)},
            !.toServer = @ \o wire.requestQueue]
    /\ UNCHANGED <<files, dirs, indexFiles, entityCache, indices, graphVars, clock, ops,
                   last, stored, onlyStores, trav, fileLocks, calls>>

\* a test that admits one attempt more
MayReconnectOnceMore(attempts) == attempts <= maxReconnectAttempts

\* this.reconnectAttempts < this.maxReconnectAttempts
MayReconnect(attempts) == attempts < maxReconnectAttempts

\* MemoryClient.handleDisconnect()
handleDisconnect(w) ==
    IF MayReconnect(w.reconnectAttempts)
    THEN [w EXCEPT !.connected = FALSE, !.reconnectAttempts = @ + 1, !.timer = TRUE]
    ELSE [w EXCEPT !.connected = FALSE, !.reconnectFailed = @ + 1]

\* the connection attempt fails: the socket emits 'error'
ConnectFails ==
    /\ wire.socket = "connecting"
    /\ wire' = handleDisconnect([wire EXCEPT !.socket = "closed"])
    /\ UNCHANGED <<files, dirs, indexFiles, entityCache, indices, graphVars, clock, ops,
                   last, stored, onlyStores, trav, fileLocks, calls>>

\* the open socket emits 'end' or 'error'.  (toServer keeps what was written)
Disconnect ==
    /\ wire.socket = "open"
    /\ wire' = handleDisconnect([wire EXCEPT !.socket = "closed", !.reconnects = 0])
    /\ UNCHANGED <<files, dirs, indexFiles, entityCache, indices, graphVars, clock, ops,
                   last, stored, onlyStores, trav, fileLocks, calls>>

\* the timer of handleDisconnect fires: connect()
TimerFires ==
    /\ wire.timer
    /\ wire' = [wire EXCEPT !.timer = FALSE, !.socket = "connecting",
                            !.reconnects = @ + 1]
    /\ UNCHANGED <<files, dirs, indexFiles, entityCache, indices, graphVars, clock, ops,
                   last, stored, onlyStores, trav, fileLocks, calls>>

\* MemoryClient.sendRequest(request), with sendToServer when connected
SendRequest(request) ==
    /\ wire.requestId <= MaxRequests
    /\ LET sent == [request EXCEPT !.requestId = wire.requestId]
       IN  wire' = [wire EXCEPT
                !.requestId = @ + 1,
                !.promises[wire.requestId] = "pending",
                !.requestQueue = IF wire.connected THEN @ ELSE Append(@, sent),
                !.pendingRequests = IF wire.connected THEN @ \cup {wire.requestId} ELSE @,
                !.toServer = IF wire.connected THEN Append(@, sent) ELSE @]
    /\ UNCHANGED <<files, dirs, indexFiles, entityCache, indices, graphVars, clock, ops,
                   last, stored, onlyStores, trav, fileLocks, calls>>

\* JSON.parse(buffer) succeeds when the buffer holds one complete JSON text
Parses(buffer) == Len(buffer) = 1

\* the server's 'data' handler on n written messages: the buffer grows, and
\* when it parses _handleRequest runs up to its await; a response it returns
\* at once is written
ServerData(n) ==
    /\ wire.pc = "idle"
    /\ n \in 1..Len(wire.toServer)
    /\ LET buffer == wire.serverBuffer \o SubSeq(wire.toServer, 1, n)
           rest == SubSeq(wire.toServer, n + 1, Len(wire.toServer))
           message == buffer[1]
       IN  wire' =
            IF ~Parses(buffer)
            THEN [wire EXCEPT !.serverBuffer = buffer, !.toServer = rest]
            ELSE IF Immediate(message) # NoResponse
            THEN [wire EXCEPT !.serverBuffer = <<>>, !.toServer = rest,
                              !.toClient = Append(@, Immediate(message)),
                              !.request = message, !.response = Immediate(message),
                              !.invoked = FALSE]
            ELSE [wire EXCEPT !.serverBuffer = <<>>, !.toServer = rest,
                              !.pc = "called", !.call = message, !.opsAt = ops]
    /\ UNCHANGED <<files, dirs, indexFiles, entityCache, indices, graphVars, clock, ops,
                   last, stored, onlyStores, trav, fileLocks, calls>>

\* the handler of the request in hand calls the storage manager
HandlerRuns ==
    /\ wire.pc = "called"
    /\ ops = wire.opsAt
    /\ \/ /\ wire.call.operation = "store_entity"
          /\ StoreEntity(wire.call.params.entity, wire.call.params.context, NoVal)
       \/ /\ wire.call.operation = "get_entity"
          /\ GetEntity(wire.call.params.id, wire.call.params.context)

\* _handleRequest after its await: the handler's result as the answer, the
\* error it threw as a tagged error; the response is written to the socket
Respond ==
    /\ wire.pc = "called"
    /\ ops = wire.opsAt + 1
    /\ LET response ==
            IF last.ok
            THEN Answer(wire.call.operation,
                        [ret |-> last.ret, ent |-> last.ent, list |-> last.list], wire.call)
            ELSE TaggedError(last.err, wire.call)
       IN  wire' = [wire EXCEPT !.pc = "idle", !.call = NoRequest,
                                !.toClient = Append(@, response),
                                !.request = wire.call, !.response = response,
                                !.invoked = TRUE]
    /\ UNCHANGED <<files, dirs, indexFiles, entityCache, indices, graphVars, clock, ops,
                   last, stored, onlyStores, trav, fileLocks, calls>>

\* MemoryClient.handleResponse(response)
handleResponse(w, response) ==
    IF response.requestId # 0 /\ response.requestId \in w.pendingRequests
    THEN [w EXCEPT !.promises[response.requestId] =
                        IF response.error THEN "rejected" ELSE "resolved",
                   !.pendingRequests = @ \ {response.requestId}]
    ELSE [w EXCEPT !.emitted = @ + 1]

\* the client's 'data' listener on n written messages, with processBuffer
ClientData(n) ==
    /\ n \in 1..Len(wire.toClient)
    /\ LET buffer == wire.buffer \o SubSeq(wire.toClient, 1, n)
           read == [wire EXCEPT
                        !.toClient = SubSeq(@, n + 1, Len(@)),
                        !.arrived = @ \cup {wire.toClient[k].answers : k \in 1..n}]
       IN  wire' = IF Parses(buffer)
                   THEN handleResponse([read EXCEPT !.buffer = <<>>], buffer[1])
                   ELSE [read EXCEPT !.buffer = buffer]
    /\ UNCHANGED <<files, dirs, indexFiles, entityCache, indices, graphVars, clock, ops,
                   last, stored, onlyStores, trav, fileLocks, calls>>

(***************************************************************************)
(* The state after construction and initialize() over an empty directory.  *)
(***************************************************************************)
Init ==
    /\ files = EmptyMap
    /\ dirs = {}
    /\ indexFiles = EmptyIndices
    /\ entityCache = <<>>
    /\ indices = EmptyIndices
    /\ relFiles = EmptyMap
    /\ relationshipCache = <<>>
    /\ relIndices = [source |-> EmptyMap, target |-> EmptyMap, type |-> EmptyMap]
    /\ clock = 1
    /\ ops = 0
    /\ last = Initialized
    /\ stored = [i \in AllIds |-> NotStored]
    /\ onlyStores = TRUE
    /\ trav = TravIdle
    /\ fileLocks = {}
    /\ calls = NoCalls
    /\ wire = NoWire

(***************************************************************************)
(* Inputs of the entity store's specification.                             *)
(***************************************************************************)
TextAb == <<"A", "b">>
TextAbBa == <<"a", "b", "!", "b", "a", " ", "a">>

Plain == [Blank EXCEPT !.type = "memory", !.content = TextAb]
OfAgent == [Blank EXCEPT !.type = "memory", !.agentId = "a1", !.content = TextAbBa,
                         !.tags = {"red"}]
OfProject == [Blank EXCEPT !.type = "note", !.projectId = "p1",
                           !.metadata = {<<"color", "red">>}]
Untyped == [Blank EXCEPT !.content = TextAb]

\* <<entity, context>> pairs handed to storeEntity
StoreCalls ==
    { <<Plain, NoVal>>, <<Plain, "system">>, <<Plain, "agent">>,
      <<OfAgent, "agent">>, <<OfAgent, NoVal>>, <<OfProject, "project">>,
      <<Untyped, NoVal>> }
CrashCalls == { <<Plain, NoVal>>, <<OfAgent, "agent">> }
ReadContexts == {NoVal, "shared", "agent", "system"}
UpdateCalls ==
    { <<[content |-> TextAbBa], NoVal>>,
      <<[agentId |-> "a2"], NoVal>>,
      <<[content |-> TextAbBa], "shared">>,
      <<[id |-> "z", type |-> "other", created |-> 2], NoVal>> }
ListCalls ==
    { <<NoVal, NoVal, l, o>> : l \in {0, 1, DefaultLimit}, o \in {0, 1} }
        \cup { <<"memory", NoVal, DefaultLimit, 0>>, <<NoVal, "agent", DefaultLimit, 0>> }

WithId(e, i) == [e EXCEPT !.id = i]

StoreOps ==
    \/ \E i \in Ids, c \in StoreCalls : StoreEntity(WithId(c[1], i), c[2], NoVal)
    \/ \E i \in Ids, c \in ReadContexts : GetEntity(i, c)
    \/ \E i \in Ids, c \in UpdateCalls : UpdateEntity(i, c[1], c[2])
    \/ \E i \in Ids, c \in {NoVal, "shared"} : DeleteEntity(i, c)
    \/ \E c \in ListCalls : ListEntities(c[1], c[2], c[3], c[4])
    \/ Restart
    \/ \E i \in Ids, c \in CrashCalls, p \in {"entity", "text"} :
            CrashInStore(WithId(c[1], i), c[2], NoVal, p)
    \/ \E i \in Ids : CrashInDelete(i, NoVal)

NextStore ==
    \/ ops < MaxOps /\ StoreOps
    \/ Tick

SpecStore == Init /\ [][NextStore]_vars

(***************************************************************************)
(* Properties of the entity store.                                         *)
(***************************************************************************)
SameEntity(a, b) == \A f \in Fields \ {"updated"} : a[f] = b[f]

\* C1 (round trip): a getEntity(id, ctx) that follows storeEntity(e, ctx) of
\* the same id and context, with only stores and reads of other entities in
\* between, returns the entity storeEntity returned (id, type, created and
\* attributes).
C1_RoundTrip ==
    (last.op = "getEntity" /\ stored[last.id].valid
        /\ last.context = stored[last.id].context)
    => (last.ok /\ SameEntity(last.ent, stored[last.id].ent))

ContextRoots == {"agents", "projects", "templates", "shared"}

FilesOf(id) == {p \in DOMAIN files : p.id = id}

\* C3 (delete removes the entity): once deleteEntity(id) has returned true and
\* no storeEntity of id has followed, getEntity(id) finds nothing and no
\* context directory holds a file of that id.
C3_DeleteRemoves ==
    \A id \in AllIds :
        stored[id].deleted =>
            /\ ~getEntity(files, dirs, entityCache, id, NoVal).found
            /\ \A p \in FilesOf(id) : p.dir.root \notin ContextRoots

StoredIds == {i \in AllIds : stored[i].valid}

\* C4 (pagination): after N successful stores of distinct ids and nothing
\* else that writes, listEntities with no type and no context returns
\* min(L, max(0, N - O)) entities and total = N.
C4_Pagination ==
    (last.op = "listEntities" /\ onlyStores /\ last.list.type = NoVal
        /\ last.context = NoVal)
    => LET N == Cardinality(StoredIds)
       IN  /\ Len(last.list.entities)
                = Min(last.list.limit, Max(0, N - last.list.offset))
           /\ last.list.total = N

Listing(fs, ds, cache) == listEntities(fs, ds, cache, NoVal, NoVal, DefaultLimit, 0)

\* C5 (list survives restart): listEntities() returns after a restart the
\* entities it returned before the restart.
C5_ListSurvivesRestart ==
    [][(last'.op = "restart" /\ last'.n = last.n + 1)
        => /\ Listing(files', dirs', entityCache').entities
                = Listing(files, dirs, entityCache).entities
           /\ Listing(files', dirs', entityCache').total
                = Listing(files, dirs, entityCache).total]_vars

\* a restart with two entities to list
C5_Witness ==
    /\ last.op = "restart"
    /\ Listing(files, dirs, entityCache).total = 2
    /\ Len(Listing(files, dirs, entityCache).entities) = 2

\* the partition the entity of a storeEntity belongs to: the agent's, the
\* project's or the template's when the context and the selector id match,
\* the shared one otherwise
PartitionOf(entity, context) ==
    CASE context = "agent" /\ Truthy(entity.agentId) -> Dir("agents", entity.agentId)
      [] context = "project" /\ Truthy(entity.projectId) -> Dir("projects", entity.projectId)
      [] context = "template" /\ Truthy(entity.templateId) ->
            Dir("templates", entity.templateId)
      [] OTHER -> SharedDir

\* C18 (directory selection): after a storeEntity that returned, the entity's
\* file is in the agent, project or template partition when the context is
\* agent, project or template and the entity carries the matching selector
\* id, and in the shared partition in every other case, where
\* listEntities(context = 'shared') lists it.
C18_DirectorySelection ==
    (last.op = "storeEntity" /\ last.ok)
    => LET dir == PartitionOf(last.ent, last.context)
           path == Path(dir, last.ent.id)
           shared == listEntities(files, dirs, entityCache, NoVal, "shared",
                                  DefaultLimit, 0).entities
       IN  /\ path \in DOMAIN files
           /\ SameEntity(files[path], last.ent)
           /\ dir = SharedDir => \E k \in 1..Len(shared) : shared[k].id = last.ent.id

Preserved == {"id", "type", "created"}

\* C13 (update preserves identity): an updateEntity that returns gives back,
\* and leaves in the entity's file, an entity with the id, type and created
\* of the entity getEntity read before the update, whatever the updates
\* supply for them; every other attribute but the updated stamp is the
\* update's when it gives one and the old one otherwise.
C13_UpdatePreserves ==
    [][(last'.op = "updateEntity" /\ last'.ok /\ last'.n = last.n + 1)
        => LET before == getEntity(files, dirs, entityCache, last'.id, last'.context).ent
               after == last'.ent
               updates == last'.args
           IN  /\ \A f \in Preserved : after[f] = before[f]
               /\ \A f \in Fields \ (Preserved \cup {"updated"}) :
                    after[f] = IF f \in DOMAIN updates THEN updates[f] ELSE before[f]
               /\ \E p \in DOMAIN files' : p.id = before.id /\ files'[p] = after
               /\ \A p \in DOMAIN files' :
                    (p \in DOMAIN files /\ files'[p] = files[p]) \/ files'[p] = after]_vars

\* an update that supplied another id, type and created has returned
C13_Witness ==
    /\ last.op = "updateEntity" /\ last.ok
    /\ Preserved \subseteq DOMAIN last.args
    /\ \A f \in Preserved : last.args[f] # last.ent[f]
    /\ \E p \in DOMAIN files : files[p] = last.ent

RECURSIVE IndexAll(_, _, _)
\* the indices after indexing the entity files one by one
IndexAll(idx, fs, todo) ==
    IF todo = {} THEN idx
    ELSE LET p == CHOOSE q \in todo : TRUE
         IN  IndexAll(IndexEntityMem(idx, fs[p]), fs, todo \ {p})

RebuildFromDisk(fs) == IndexAll(EmptyIndices, fs, DOMAIN fs)

SameSets(a, b) == \A k \in DOMAIN a \cup DOMAIN b : MapGet(a, k) = MapGet(b, k)

MetaGet(m, k) == IF k \in DOMAIN m THEN m[k] ELSE EmptyMap

\* equal as indices: a key with no entity under it counts as absent
SameIndices(a, b) ==
    /\ SameSets(a.text, b.text)
    /\ SameSets(a.agentId, b.agentId)
    /\ \A k \in DOMAIN a.metadata \cup DOMAIN b.metadata :
            SameSets(MetaGet(a.metadata, k), MetaGet(b.metadata, k))

\* C6 (self-healing indices): after initialize() on a restart, also one that
\* follows a stop inside storeEntity or deleteEntity, the indices are those
\* of a scan of the entity files on disk.
C6_SelfHealing ==
    last.op \in {"restart", "crashInStore", "crashInDelete"}
        => SameIndices(indices, RebuildFromDisk(files))

(***************************************************************************)
(* The knowledge graph's specification.  The process starts over a         *)
(* directory an earlier process left: entities stored in the shared        *)
(* context and the relationships created between them.                     *)
(***************************************************************************)
\* a chain x - y - z - w
Chain == [entities |-> {"x", "y", "z", "w"},
          rels |-> {Rel("r1", "x", "y", "knows"), Rel("r2", "y", "z", "knows"),
                    Rel("r3", "z", "w", "knows")}]
\* a diamond x -> y, x -> z -> y
Diamond == [entities |-> {"x", "y", "z"},
            rels |-> {Rel("r1", "x", "z", "knows"), Rel("r2", "z", "y", "knows"),
                      Rel("r3", "x", "y", "owns")}]
\* a cycle x -> y -> x, a self-loop on x and a second relationship x -> y
Knot == [entities |-> {"x", "y"},
         rels |-> {Rel("r1", "x", "y", "knows"), Rel("r2", "y", "x", "owns"),
                   Rel("r3", "x", "x", "knows"), Rel("r4", "x", "y", "knows")}]
\* q was never stored: x -> q -> z
Dangling == [entities |-> {"x", "z"},
             rels |-> {Rel("r1", "x", "q", "knows"), Rel("r2", "q", "z", "knows")}]
\* relationships that point at x
Inward == [entities |-> {"x", "y", "z"},
           rels |-> {Rel("r1", "y", "x", "knows"), Rel("r2", "z", "y", "owns")}]
Lonely == [entities |-> {"x"}, rels |-> {}]

Graphs == {Chain, Diamond, Knot, Dangling, Inward, Lonely}

\* what an earlier storeEntity / createRelationship wrote
EntityOnDisk(i) == [WithId(Plain, i) EXCEPT !.created = 1, !.updated = 1]
RelOnDisk(r) == [r EXCEPT !.created = 1, !.updated = 1]

InitGraph ==
    \E g \in Graphs :
        /\ files = [p \in {Path(SharedDir, i) : i \in g.entities} |-> EntityOnDisk(p.id)]
        /\ dirs = {}
        /\ indexFiles = _saveIndices(RebuildFromDisk(files))
        /\ entityCache = <<>>
        /\ indices = initialize(indexFiles)
        /\ relFiles = [i \in {r.id : r \in g.rels} |->
                            RelOnDisk(CHOOSE r \in g.rels : r.id = i)]
        /\ relIndices = initializeGraph(relFiles).indices
        /\ relationshipCache = initializeGraph(relFiles).cache
        /\ clock = 1
        /\ ops = 0
        /\ last = Initialized
        /\ stored = [i \in AllIds |-> NotStored]
        /\ onlyStores = FALSE
        /\ trav = TravIdle
        /\ fileLocks = {}
        /\ calls = NoCalls
        /\ wire = NoWire

GraphStoreCalls ==
    { <<WithId(Plain, "q"), "system">>, <<WithId(Plain, "q"), NoVal>>,
      <<WithId(Untyped, "q"), NoVal>> }
CreateCalls ==
    { Rel("r1", "y", "z", "knows"), Rel("r4", "x", "q", "owns"),
      Rel(NoVal, "z", "x", "knows"), Rel("r4", "x", NoVal, "knows"),
      Rel("r4", NoVal, "y", "knows"), Rel("r2", "x", "y", NoVal) }
GenIds(r) == IF Truthy(r.id) THEN {NoVal} ELSE FreshRelIds
Directions == {"outgoing", "incoming", "both"}
TypeFilters == {AnyType, Only({"knows"}), Only({"other"})}

GraphOps ==
    \/ \E c \in GraphStoreCalls : StoreEntity(c[1], c[2], NoVal)
    \/ \E i \in {"x", "y"} : DeleteEntity(i, NoVal)
    \/ \E r \in CreateCalls : \E gen \in GenIds(r) : CreateRelationship(r, gen)
    \/ \E i \in {"r1", "r3"} : DeleteRelationship(i)
    \/ Restart
    \/ \E start \in {"x", "y"}, types \in TypeFilters, maxDepth \in 0..MaxDepth,
          direction \in Directions : TraverseStart(start, types, maxDepth, direction)

NextGraph ==
    \/ ops < MaxGraphOps /\ GraphOps
    \/ TraverseStep

SpecGraph == InitGraph /\ [][NextGraph]_vars

\* traversals of the graphs on disk and of those with one more relationship
NextTraversal ==
    \/ ops < MaxLiveOps /\
        \/ \E r \in CreateCalls : \E gen \in GenIds(r) : CreateRelationship(r, gen)
        \/ \E start \in {"x", "y"}, types \in TypeFilters, maxDepth \in 0..MaxDepth,
              direction \in Directions : TraverseStart(start, types, maxDepth, direction)
    \/ TraverseStep

\* the event loop resumes a traversal that is waiting on a read
SpecGraphLive == InitGraph /\ [][NextTraversal]_vars /\ WF_vars(TraverseStep)

(***************************************************************************)
(* Properties of the knowledge graph.                                      *)
(***************************************************************************)
\* C2 (idempotent delete): deleteEntity(id) of a stored entity returns true,
\* and called again at once returns false without throwing;
\* deleteRelationship(id) of a created relationship does the same.
C2_IdempotentDelete ==
    [][last'.n = last.n + 1 =>
        /\ (last'.op = "deleteEntity" /\ last'.id \in Resolvable)
            => last'.ret = "true"
        /\ (last'.op = "deleteEntity" /\ last.op = "deleteEntity"
                /\ last.ret = "true" /\ last'.id = last.id)
            => (last'.ok /\ last'.ret = "false")
        /\ (last'.op = "deleteRelationship" /\ last'.id \in DOMAIN relFiles)
            => last'.ret = "true"
        /\ (last'.op = "deleteRelationship" /\ last.op = "deleteRelationship"
                /\ last.ret = "true" /\ last'.id = last.id)
            => (last'.ok /\ last'.ret = "false")]_vars

\* C14 (validation changes nothing): storeEntity of an entity without type
\* and createRelationship of a relationship without sourceId, targetId or
\* type throw the validation error and leave the files, the indices and the
\* two caches as they were.
C14_ValidationChangesNothing ==
    [][last'.n = last.n + 1 =>
        /\ (last'.op = "storeEntity" /\ ~Truthy(last'.args.type))
            => /\ ~last'.ok /\ last'.err = "Entity must have a type"
               /\ UNCHANGED <<files, dirs, indexFiles, indices, entityCache,
                              relFiles, relIndices, relationshipCache>>
        /\ (last'.op = "createRelationship"
                /\ (~Truthy(last'.args.sourceId) \/ ~Truthy(last'.args.targetId)
                        \/ ~Truthy(last'.args.type)))
            => /\ ~last'.ok
               /\ last'.err \in {"Relationship must have a source ID",
                                 "Relationship must have a target ID",
                                 "Relationship must have a type"}
               /\ UNCHANGED <<files, dirs, indexFiles, indices, entityCache,
                              relFiles, relIndices, relationshipCache>>]_vars

\* a relationship without type was refused while relationships were on disk
C14_Witness ==
    /\ last.op = "createRelationship" /\ ~last.ok
    /\ Truthy(last.args.sourceId) /\ Truthy(last.args.targetId) /\ ~Truthy(last.args.type)
    /\ DOMAIN relFiles # {}
    /\ relationshipCache # <<>>

\* a relationship on disk leads from u to v in the direction and of a type asked for
Admissible(r, u, v, types, direction) ==
    /\ TypeWanted(types, r.type)
    /\ \/ direction \in {"outgoing", "both"} /\ r.sourceId = u /\ r.targetId = v
       \/ direction \in {"incoming", "both"} /\ r.targetId = u /\ r.sourceId = v

RelsOnDisk == {relFiles[i] : i \in DOMAIN relFiles}

RECURSIVE Within(_)
\* the entities at most k admissible hops from the start, through entities
\* that resolved when traverseGraph was called
Within(k) ==
    IF k = 0 THEN {trav.start}
    ELSE LET near == Within(k - 1)
         IN  near \cup {v \in trav.resolvable :
                          \E u \in near, r \in RelsOnDisk :
                              Admissible(r, u, v, trav.types, trav.direction)}

\* C7 (traversal reach): traverseGraph returns the start entity and every
\* resolvable entity within maxDepth admissible hops of it, and no other.
C7_TraversalReach ==
    trav.pc = "done" => Range(trav.entities) = Within(trav.maxDepth)

HopBound == Cardinality(AllIds)

HasDistance(X, k) == X \in Within(k) /\ \A j \in 0..(k - 1) : X \notin Within(j)

\* C8 (shortest path): the distance recorded for a returned entity is the
\* least number of hops of an admissible path from the start to it.
C8_ShortestPath ==
    trav.pc = "done" =>
        \A X \in Range(trav.entities) :
            /\ \E k \in 0..HopBound : HasDistance(X, k)
            /\ HasDistance(X, trav.paths[X].distance)

\* C9 (termination): a traversal that has started returns, and no entity
\* is put on the queue twice.
C9_Terminates ==
    /\ [](trav.pc \in {"running", "done"} => \A i \in AllIds : trav.pushes[i] <= 1)
    /\ (trav.pc = "running") ~> (trav.pc = "done")

\* a traversal over the cycle, the self-loop and the parallel relationships has returned
C9_Witness ==
    /\ trav.pc = "done"
    /\ {"r1", "r2", "r3", "r4"} \subseteq Range(trav.relationships)
    /\ Range(trav.entities) = {"x", "y"}

Endpoints == {r.sourceId : r \in RelsOnDisk} \cup {r.targetId : r \in RelsOnDisk}

\* C10 (dangling relationships): when the start entity resolves and an
\* endpoint of some relationship does not, traverseGraph does not throw and
\* returns no entity for the endpoint.
C10_DanglingTolerated ==
    (trav.pc # "idle" /\ trav.start \in trav.resolvable
        /\ Endpoints \ trav.resolvable # {})
    => /\ trav.pc # "threw"
       /\ trav.pc = "done" => Range(trav.entities) \cap (Endpoints \ trav.resolvable) = {}

\* a traversal that followed a relationship to an endpoint that does not resolve
C10_Witness ==
    /\ trav.pc = "done"
    /\ \E i \in Range(trav.relationships) :
            /\ i \in DOMAIN relFiles
            /\ {relFiles[i].sourceId, relFiles[i].targetId} \ trav.resolvable # {}
            /\ trav.start \in {relFiles[i].sourceId, relFiles[i].targetId}

\* C19 (cache bound): after every operation of the Storage Manager and of
\* the Knowledge Graph, and at every step of a traversal, the entity cache
\* and the relationship cache hold at most maxCacheSize entries each.
C19_CacheBound ==
    /\ Len(entityCache) <= maxCacheSize
    /\ Len(relationshipCache) <= maxCacheSize

\* both caches are full after an operation, with more entity files and more
\* relationship files on disk than a cache holds
C19_Witness ==
    /\ last.op # "initialize"
    /\ Len(entityCache) = maxCacheSize
    /\ Len(relationshipCache) = maxCacheSize
    /\ Cardinality(DOMAIN files) > maxCacheSize
    /\ Cardinality(DOMAIN relFiles) > maxCacheSize

(***************************************************************************)
(* The query engine's specification: searches over what stores, updates    *)
(* and deletes left in the indices.                                        *)
(***************************************************************************)
MaxQueryOps == 3

QueryIds == {"x", "y", "z"}

Red == [Blank EXCEPT !.type = "memory", !.content = TextAb,
                     !.metadata = {<<"color", "red">>}]
RedLarge == [Blank EXCEPT !.type = "note", !.content = TextAbBa,
                          !.metadata = {<<"color", "red">>, <<"size", "large">>}]

QueryStoreCalls ==
    { <<Red, NoVal>>, <<RedLarge, NoVal>>, <<Red, "system">>, <<OfAgent, "agent">> }
QueryUpdateCalls ==
    { <<[content |-> TextAb, metadata |-> {<<"size", "large">>}], NoVal>> }

\* "ab ba", "ab ab", "Ab, bb" and "a"
QAbBa == <<"a", "b", " ", "b", "a">>
QAbAb == <<"a", "b", " ", "a", "b">>
QAbBb == <<"A", "b", ",", " ", "b", "b">>
QShort == <<"a">>
TextQueries == {QAbBa, QAbAb, QAbBb, QShort}

TextOptions ==
    { NoOptions,
      [NoOptions EXCEPT !.threshold = Fraction(1, 1)],
      [NoOptions EXCEPT !.limit = 1, !.offset = 1],
      [NoOptions EXCEPT !.type = "memory"],
      [NoOptions EXCEPT !.agentId = "a1", !.context = "agent"] }

MetadataQueries ==
    { << <<"color", "red">>, <<"size", "large">> >>,
      << <<"color", "red">> >>,
      << <<"size", "large">>, <<"shape", "round">> >>,
      << <<"color", "blue">> >> }

MetadataOptions ==
    { NoOptions,
      [NoOptions EXCEPT !.matchAll = FALSE],
      [NoOptions EXCEPT !.matchAll = FALSE, !.limit = 1],
      [NoOptions EXCEPT !.type = "note"] }

QueryOps ==
    \/ \E i \in QueryIds, c \in QueryStoreCalls : StoreEntity(WithId(c[1], i), c[2], NoVal)
    \/ \E i \in QueryIds, c \in QueryUpdateCalls : UpdateEntity(i, c[1], c[2])
    \/ \E i \in QueryIds : DeleteEntity(i, NoVal)
    \/ \E q \in TextQueries, o \in TextOptions : SearchByText(q, o)
    \/ \E m \in MetadataQueries, o \in MetadataOptions : SearchByMetadata(m, o)
    \/ Restart

NextQuery == ops < MaxQueryOps /\ QueryOps

SpecQuery == Init /\ [][NextQuery]_vars

(***************************************************************************)
(* Properties of the query engine.                                         *)
(***************************************************************************)
\* the tokens the text index holds the entity under
IndexedTokens(id) == {t \in DOMAIN indices.text : id \in indices.text[t]}

\* the query tokens, counted as often as the query has them, found in an
\* index set that holds the entity
MatchedTokens(id, tokens) ==
    Cardinality({k \in 1..Len(tokens) : tokens[k] \in IndexedTokens(id)})

\* C11 (text search scoring): every entity searchByText returns has the score
\* (query tokens found in an index set holding the entity) / (query tokens),
\* above 0 and at most 1; it is 1 when the index holds the entity under every
\* query token and 1/2 when it holds it under one of two distinct tokens; the
\* results are in descending order of score.
C11_TextScore ==
    last.op = "searchByText" =>
        LET tokens == QueryTokens(last.args.query)
            results == last.search.results
        IN  /\ \A k \in 1..Len(results) :
                LET id == results[k].entity.id
                    score == results[k].score
                IN  /\ score.den = Len(tokens)
                    /\ score.num = MatchedTokens(id, tokens)
                    /\ 0 < score.num /\ score.num <= score.den
                    /\ Range(tokens) \subseteq IndexedTokens(id) => score.num = score.den
                    /\ (Len(tokens) = 2
                            /\ Cardinality(Range(tokens) \cap IndexedTokens(id)) = 1
                            /\ Cardinality(Range(tokens)) = 2)
                        => 2 * score.num = score.den
            /\ \A j, k \in 1..Len(results) :
                j < k => ScoreAtLeast(results[j].score, results[k].score)

\* a search for "ab ba" returned an entity with score 1/2 after one with score 1
C11_Witness ==
    /\ last.op = "searchByText"
    /\ last.args.query = QAbBa
    /\ \E j, k \in 1..Len(last.search.results) :
        /\ j < k
        /\ last.search.results[j].score = Fraction(2, 2)
        /\ last.search.results[k].score = Fraction(1, 2)

\* the pairs of the query that the metadata index holds
PresentPairs(metadata) ==
    {k \in 1..Len(metadata) :
        /\ metadata[k][1] \in DOMAIN indices.metadata
        /\ metadata[k][2] \in DOMAIN indices.metadata[metadata[k][1]]}

PairSet(metadata, k) == indices.metadata[metadata[k][1]][metadata[k][2]]

\* C12 (metadata intersection and union): a searchByMetadata without type or
\* agentId filter, whose page takes every match, returns exactly the entities
\* that are in the index set of every pair of the query the index holds
\* (matchAll) or of at least one of them (otherwise).
C12_MetadataSearch ==
    (last.op = "searchByMetadata" /\ last.args.opts.type = NoVal
        /\ last.args.opts.agentId = NoVal /\ last.args.opts.context = NoVal
        /\ last.args.opts.offset = 0 /\ last.args.opts.limit = SearchDefaultLimit)
    => LET metadata == last.args.query
           some == {e \in AllIds : \E k \in PresentPairs(metadata) :
                                        e \in PairSet(metadata, k)}
           every == {e \in some : \A k \in PresentPairs(metadata) :
                                        e \in PairSet(metadata, k)}
           returned == {last.search.results[k].entity.id :
                            k \in 1..Len(last.search.results)}
       IN  returned = IF last.args.opts.matchAll THEN every ELSE some

(***************************************************************************)
(* Calls that run in steps.  An asynchronous method runs until it awaits;  *)
(* what follows the await runs once the awaited I/O is done, and steps of  *)
(* other calls may come in between.  A step here is the effect of one      *)
(* awaited I/O together with the code that runs when it is done, up to the *)
(* next await.                                                             *)
(***************************************************************************)
MaxCalls == 2

Ended == {"idle", "returned", "threw"}

InFlight == {p \in Callers : calls[p].pc \notin Ended}

\* the caller has no call in flight and may make one
Free(p) == calls[p].pc \in Ended /\ ops + Cardinality(InFlight) < MaxCalls

\* a test that finds every path unlocked
LockAlwaysFree(locks, filePath) == TRUE

\* !this.fileLocks.has(filePath)
LockFree(locks, filePath) == filePath \notin locks

\* StorageManager._acquireLock, one turn of its loop: the lock is taken when
\* it is free, else the call sleeps and polls again
_acquireLock(locks, filePath) ==
    IF LockFree(locks, filePath)
    THEN [locks |-> locks \cup {filePath}, pc |-> "locked"]
    ELSE [locks |-> locks, pc |-> "polling"]

\* a release that leaves the lock in the table
LockKept(locks, filePath) == locks

\* StorageManager._releaseLock
_releaseLock(locks, filePath) == locks \ {filePath}

CallIs(p, op, pc) == calls[p].pc = pc /\ calls[p].op = op

\* the call of p goes on to pc
GoesOn(p, pc) ==
    /\ calls' = [calls EXCEPT ![p].pc = pc]
    /\ UNCHANGED <<last, ops>>

\* the call of p ends as rec tells
Ends(p, rec) ==
    /\ calls' = [calls EXCEPT ![p].pc = IF rec.ok THEN "returned" ELSE "threw"]
    /\ last' = rec
    /\ ops' = ops + 1

\* storeEntity up to await fs.mkdir
BeginStore(p, e, context, gen) ==
    /\ Free(p)
    /\ stored' = Forget(Stamped(e, gen).id)
    /\ onlyStores' = FALSE
    /\ UNCHANGED <<files, dirs, indexFiles, entityCache, indices, graphVars, clock, trav,
                   fileLocks>>
    /\ LET ctx == IF context = NoVal THEN "shared" ELSE context
           entity == Stamped(e, gen)
           call == [pc |-> "mkdir", op |-> "storeEntity", id |-> entity.id,
                    context |-> context, entity |-> entity, written |-> entity,
                    path |-> Path(_getEntityPath(entity, ctx), entity.id)]
       IN  IF ~Truthy(e.type)
           THEN /\ calls' = [calls EXCEPT ![p] = [call EXCEPT !.pc = "threw"]]
                /\ last' = Threw("storeEntity", entity.id, context, "Entity must have a type")
                /\ ops' = ops + 1
           ELSE /\ calls' = [calls EXCEPT ![p] = call]
                /\ UNCHANGED <<last, ops>>

\* the directory is made; storeEntity goes on to _acquireLock
StoreMkdir(p) ==
    /\ CallIs(p, "storeEntity", "mkdir")
    /\ dirs' = Mkdir(dirs, calls[p].path.dir)
    /\ \E a \in {_acquireLock(fileLocks, calls[p].path)} :
        /\ fileLocks' = a.locks
        /\ GoesOn(p, a.pc)
    /\ UNCHANGED <<files, indexFiles, entityCache, indices, graphVars, clock, trav,
                   stored, onlyStores>>

\* _acquireLock after a sleep: the lock is free and taken
Poll(p) ==
    /\ calls[p].pc = "polling"
    /\ \E a \in {_acquireLock(fileLocks, calls[p].path)} :
        /\ a.pc = "locked"
        /\ fileLocks' = a.locks
        /\ GoesOn(p, "locked")
    /\ UNCHANGED <<files, dirs, indexFiles, entityCache, indices, graphVars, clock, trav,
                   stored, onlyStores>>

\* storeEntity under the lock: fs.writeFile, then _indexEntity up to _saveIndices
StoreWrite(p) ==
    /\ CallIs(p, "storeEntity", "locked")
    /\ files' = FilePut(files, calls[p].path, calls[p].written)
    /\ indices' = IndexEntityMem(indices, calls[p].written)
    /\ GoesOn(p, "written")
    /\ UNCHANGED <<dirs, indexFiles, entityCache, graphVars, clock, trav, stored,
                   onlyStores, fileLocks>>

\* updateEntity up to the await in _acquireLock: getEntity, the merge, the path
BeginUpdate(p, id, updates, context) ==
    /\ Free(p)
    /\ stored' = Forget(id)
    /\ onlyStores' = FALSE
    /\ UNCHANGED <<files, dirs, indexFiles, indices, graphVars, clock, trav>>
    /\ \E g \in {getEntity(files, dirs, entityCache, id, context)} :
        /\ entityCache' = g.cache
        /\ IF ~g.found
           THEN /\ calls' = [calls EXCEPT ![p] =
                                [pc |-> "threw", op |-> "updateEntity", id |-> id]]
                /\ last' = Threw("updateEntity", id, context, "Entity not found")
                /\ ops' = ops + 1
                /\ UNCHANGED fileLocks
           ELSE LET updatedEntity == Merged(g.ent, updates)
                    path == Path(_getEntityPath(updatedEntity, ContextOr(context, g.ent)),
                                 updatedEntity.id)
                    a == _acquireLock(fileLocks, path)
                IN  /\ fileLocks' = a.locks
                    /\ calls' = [calls EXCEPT ![p] =
                                    [pc |-> a.pc, op |-> "updateEntity", id |-> id,
                                     context |-> context, updates |-> updates,
                                     entity |-> g.ent, written |-> updatedEntity,
                                     path |-> path]]
                    /\ UNCHANGED <<last, ops>>

\* updateEntity under the lock: fs.writeFile, then _updateEntityIndices
UpdateWrite(p) ==
    /\ CallIs(p, "updateEntity", "locked")
    /\ UNCHANGED <<dirs, indexFiles, entityCache, graphVars, clock, trav, stored, onlyStores>>
    /\ IF ~DirExists(dirs, calls[p].path.dir)
       THEN \* fs.writeFile into a directory nobody made; finally releases the lock
            /\ fileLocks' = _releaseLock(fileLocks, calls[p].path)
            /\ Ends(p, Threw("updateEntity", calls[p].id, calls[p].context, "ENOENT"))
            /\ UNCHANGED <<files, indices>>
       ELSE /\ files' = FilePut(files, calls[p].path, calls[p].written)
            /\ indices' = IndexEntityMem(RemoveEntityMem(indices, calls[p].entity),
                                         calls[p].written)
            /\ GoesOn(p, "written")
            /\ UNCHANGED fileLocks

\* storeEntity and updateEntity after _saveIndices: the entity is cached, the
\* lock released, the entity returned
WriteFinish(p) ==
    /\ calls[p].pc = "written"
    /\ indexFiles' = _saveIndices(indices)
    /\ entityCache' = _cacheEntity(entityCache, calls[p].written)
    /\ fileLocks' = _releaseLock(fileLocks, calls[p].path)
    /\ Ends(p, Returned(calls[p].op, calls[p].id, calls[p].context, "",
                        calls[p].written, NoList))
    /\ UNCHANGED <<files, dirs, indices, graphVars, clock, trav, stored, onlyStores>>

\* deleteEntity up to the await in _acquireLock
BeginDelete(p, id, context) ==
    /\ Free(p)
    /\ stored' = Forget(id)
    /\ onlyStores' = FALSE
    /\ UNCHANGED <<files, dirs, indexFiles, indices, graphVars, clock, trav>>
    /\ \E g \in {getEntity(files, dirs, entityCache, id, context)} :
        /\ entityCache' = g.cache
        /\ IF ~g.found
           THEN /\ calls' = [calls EXCEPT ![p] =
                                [pc |-> "threw", op |-> "deleteEntity", id |-> id]]
                /\ last' = Threw("deleteEntity", id, context, "Entity not found")
                /\ ops' = ops + 1
                /\ UNCHANGED fileLocks
           ELSE LET path == Path(_getEntityPath(g.ent, ContextOr(context, g.ent)), id)
                    a == _acquireLock(fileLocks, path)
                IN  /\ fileLocks' = a.locks
                    /\ calls' = [calls EXCEPT ![p] =
                                    [pc |-> a.pc, op |-> "deleteEntity", id |-> id,
                                     context |-> context, entity |-> g.ent,
                                     path |-> path]]
                    /\ UNCHANGED <<last, ops>>

\* deleteEntity under the lock: _removeEntityFromIndices, entityCache.delete
DeleteRemove(p) ==
    /\ CallIs(p, "deleteEntity", "locked")
    /\ indices' = RemoveEntityMem(indices, calls[p].entity)
    /\ indexFiles' = _saveIndices(indices')
    /\ entityCache' = CacheDelete(entityCache, calls[p].id)
    /\ GoesOn(p, "unlinking")
    /\ UNCHANGED <<files, dirs, graphVars, clock, trav, stored, onlyStores, fileLocks>>

\* deleteEntity: fs.unlink, the lock released
DeleteUnlink(p) ==
    /\ CallIs(p, "deleteEntity", "unlinking")
    /\ fileLocks' = _releaseLock(fileLocks, calls[p].path)
    /\ IF calls[p].path \in DOMAIN files
       THEN /\ files' = FileUnlink(files, calls[p].path)
            /\ Ends(p, Returned("deleteEntity", calls[p].id, calls[p].context, "true",
                                calls[p].entity, NoList))
       ELSE /\ UNCHANGED files
            /\ Ends(p, Threw("deleteEntity", calls[p].id, calls[p].context, "ENOENT"))
    /\ UNCHANGED <<dirs, indexFiles, entityCache, indices, graphVars, clock, trav, stored,
                   onlyStores>>

\* createRelationship up to await fs.writeFile
BeginCreate(p, r, gen) ==
    /\ Free(p)
    /\ UNCHANGED <<storeVars, graphVars, clock, trav, fileLocks>>
    /\ LET rel == [r EXCEPT !.id = IF Truthy(r.id) THEN r.id ELSE gen,
                            !.created = IF r.created # 0 THEN r.created ELSE clock,
                            !.updated = clock]
           call == [pc |-> "relWriting", op |-> "createRelationship", id |-> rel.id,
                    rel |-> NoRel, written |-> rel]
       IN  IF RelationshipError(r) # ""
           THEN /\ calls' = [calls EXCEPT ![p] = [call EXCEPT !.pc = "threw"]]
                /\ last' = Threw("createRelationship", r.id, NoVal, RelationshipError(r))
                /\ ops' = ops + 1
           ELSE /\ calls' = [calls EXCEPT ![p] = call]
                /\ UNCHANGED <<last, ops>>

\* updateRelationship up to await fs.writeFile
BeginUpdateRelationship(p, id, updates) ==
    /\ Free(p)
    /\ UNCHANGED <<storeVars, relFiles, relIndices, clock, trav, fileLocks>>
    /\ \E g \in {getRelationship(relFiles, relationshipCache, id)} :
        /\ relationshipCache' = g.cache
        /\ IF ~g.found
           THEN /\ calls' = [calls EXCEPT ![p] =
                                [pc |-> "threw", op |-> "updateRelationship", id |-> id]]
                /\ last' = Threw("updateRelationship", id, NoVal, "Relationship not found")
                /\ ops' = ops + 1
           ELSE /\ calls' = [calls EXCEPT ![p] =
                                [pc |-> "relWriting", op |-> "updateRelationship",
                                 id |-> id, rel |-> g.rel,
                                 written |-> MergedRelationship(g.rel, updates)]]
                /\ UNCHANGED <<last, ops>>

\* fs.writeFile of the relationship file is done
RelationshipWrite(p) ==
    /\ calls[p].pc = "relWriting"
    /\ relFiles' = [i \in DOMAIN relFiles \cup {calls[p].id} |->
                        IF i = calls[p].id THEN calls[p].written ELSE relFiles[i]]
    /\ GoesOn(p, "relWritten")
    /\ UNCHANGED <<storeVars, relIndices, relationshipCache, clock, trav, fileLocks>>

\* createRelationship and updateRelationship after the write: the indices,
\* the cache, the return
RelationshipFinish(p) ==
    /\ calls[p].pc = "relWritten"
    /\ relIndices' = _indexRelationship(
                        IF calls[p].op = "updateRelationship"
                        THEN _removeRelationshipFromIndices(relIndices, calls[p].rel)
                        ELSE relIndices,
                        calls[p].written)
    /\ relationshipCache' = _cacheRelationship(relationshipCache, calls[p].written)
    /\ Ends(p, Returned(calls[p].op, calls[p].id, NoVal, "", Blank, NoList))
    /\ UNCHANGED <<storeVars, relFiles, clock, trav, fileLocks>>

\* deleteRelationship up to await fs.unlink
BeginDeleteRelationship(p, id) ==
    /\ Free(p)
    /\ UNCHANGED <<storeVars, relFiles, clock, trav, fileLocks>>
    /\ \E g \in {getRelationship(relFiles, relationshipCache, id)} :
        IF ~g.found
        THEN /\ calls' = [calls EXCEPT ![p] =
                            [pc |-> "threw", op |-> "deleteRelationship", id |-> id]]
             /\ last' = Threw("deleteRelationship", id, NoVal, "Relationship not found")
             /\ ops' = ops + 1
             /\ relationshipCache' = g.cache
             /\ UNCHANGED relIndices
        ELSE /\ relIndices' = _removeRelationshipFromIndices(relIndices, g.rel)
             /\ relationshipCache' = CacheDelete(g.cache, id)
             /\ calls' = [calls EXCEPT ![p] =
                            [pc |-> "relUnlinking", op |-> "deleteRelationship",
                             id |-> id, rel |-> g.rel]]
             /\ UNCHANGED <<last, ops>>

\* fs.unlink of the relationship file is done, or fails with ENOENT
RelationshipUnlink(p) ==
    /\ calls[p].pc = "relUnlinking"
    /\ relFiles' = [i \in DOMAIN relFiles \ {calls[p].id} |-> relFiles[i]]
    /\ Ends(p, Returned("deleteRelationship", calls[p].id, NoVal,
                        IF calls[p].id \in DOMAIN relFiles THEN "true" ELSE "false",
                        Blank, NoList))
    /\ UNCHANGED <<storeVars, relIndices, relationshipCache, clock, trav, fileLocks>>

(***************************************************************************)
(* The specification of concurrent calls, over the directories of the      *)
(* knowledge graph's specification.                                        *)
(***************************************************************************)
AsyncStoreCalls == { <<WithId(OfAgent, "x"), NoVal>>, <<WithId(Plain, "q"), NoVal>> }
AsyncUpdateCalls == { [content |-> TextAbBa], [name |-> TextAb] }
AsyncCreateCalls == { Rel("r1", "y", "z", "knows"), Rel("r4", "x", "q", "owns") }

AsyncSteps ==
    \/ \E p \in Callers, c \in AsyncStoreCalls : BeginStore(p, c[1], c[2], NoVal)
    \/ \E p \in Callers : StoreMkdir(p)
    \/ \E p \in Callers : Poll(p)
    \/ \E p \in Callers : StoreWrite(p)
    \/ \E p \in Callers, u \in AsyncUpdateCalls : BeginUpdate(p, "x", u, NoVal)
    \/ \E p \in Callers : UpdateWrite(p)
    \/ \E p \in Callers : WriteFinish(p)
    \/ \E p \in Callers : BeginDelete(p, "x", NoVal)
    \/ \E p \in Callers : DeleteRemove(p)
    \/ \E p \in Callers : DeleteUnlink(p)
    \/ \E p \in Callers, r \in AsyncCreateCalls : BeginCreate(p, r, NoVal)
    \/ \E p \in Callers : BeginUpdateRelationship(p, "r1", [type |-> "owns"])
    \/ \E p \in Callers : RelationshipWrite(p)
    \/ \E p \in Callers : RelationshipFinish(p)
    \/ \E p \in Callers : BeginDeleteRelationship(p, "r1")
    \/ \E p \in Callers : RelationshipUnlink(p)

\* the calls of SpecAsync are made in process, not over the socket
NextAsync == AsyncSteps /\ UNCHANGED wire

SpecAsync == InitGraph /\ [][NextAsync]_vars

(***************************************************************************)
(* Properties of concurrent calls.                                         *)
(***************************************************************************)
\* the call of p is between acquiring and releasing the lock of its file
InSection(p) == calls[p].pc \in {"locked", "written", "unlinking"}

\* C15 (one write in flight per file): no two storeEntity, updateEntity or
\* deleteEntity calls are at once between acquiring and releasing the lock
\* of the same entity file path.
C15_OneWriterPerFile ==
    \A p, q \in Callers :
        (p # q /\ InSection(p) /\ InSection(q)) => calls[p].path # calls[q].path

\* one call has written the file while another waits for the lock of the same path
C15_Witness ==
    \E p, q \in Callers :
        /\ calls[p].pc = "written"
        /\ calls[q].pc = "polling"
        /\ calls[p].path = calls[q].path

\* C16 (no lost update): when two updateEntity calls on the same id that
\* change different attributes have both returned, and no other call was
\* made, the entity in the file carries both changes.
C16_NoLostUpdate ==
    \A p, q \in Callers :
        (/\ p # q
         /\ calls[p].pc = "returned" /\ calls[p].op = "updateEntity"
         /\ calls[q].pc = "returned" /\ calls[q].op = "updateEntity"
         /\ calls[p].id = calls[q].id
         /\ DOMAIN calls[p].updates \cap DOMAIN calls[q].updates = {}
         /\ ops = 2)
        => \A c \in {calls[p], calls[q]} : \A f \in DOMAIN c.updates :
                files[c.path][f] = c.updates[f]

InIndex(index, id) == \E k \in DOMAIN index : id \in Range(index[k])

AllRelIds == Range(RelIdOrder)

\* C17 (relationship index and file): at every point between the steps of
\* createRelationship, updateRelationship and deleteRelationship, a
\* relationship id is in the source, target and type indices exactly when
\* its file is on disk.
C17_IndexMatchesFiles ==
    \A id \in AllRelIds :
        /\ id \in DOMAIN relFiles
            => (InIndex(relIndices.source, id) /\ InIndex(relIndices.target, id)
                    /\ InIndex(relIndices.type, id))
        /\ (InIndex(relIndices.source, id) \/ InIndex(relIndices.target, id)
                \/ InIndex(relIndices.type, id))
            => id \in DOMAIN relFiles

(***************************************************************************)
(* The entity cache's specification: stores, reads, updates, deletes and   *)
(* listings of three entities, more than the cache holds.                  *)
(***************************************************************************)
MaxCacheOps == 4

CacheIds == {"x", "y", "z"}
CacheContexts == {NoVal, "system"}

CacheOps ==
    \/ \E i \in CacheIds, c \in CacheContexts : StoreEntity(WithId(Plain, i), c, NoVal)
    \/ \E i \in CacheIds, c \in CacheContexts : GetEntity(i, c)
    \/ \E i \in CacheIds : UpdateEntity(i, [content |-> TextAbBa], NoVal)
    \/ \E i \in CacheIds : DeleteEntity(i, NoVal)
    \/ ListEntities(NoVal, NoVal, DefaultLimit, 0)

NextCache ==
    \/ ops < MaxCacheOps /\ CacheOps
    \/ Tick

SpecCache == Init /\ [][NextCache]_vars

\* the ids of the cache, in the order of the Map
IdsOf(cache) == {cache[i].id : i \in 1..Len(cache)}
Position(cache, id) == CHOOSE i \in 1..Len(cache) : cache[i].id = id

\* C20 (insertion-order eviction): a storeEntity, getEntity or updateEntity
\* that returns evicts from the entity cache as many entries as exceed
\* maxCacheSize, and those are the ones inserted earliest; the entries that
\* stay keep their order, also the one that was read or written again, and
\* an id that is new to the cache comes last.
C20_EvictsOldest ==
    [][(last'.n = last.n + 1 /\ last'.ok
            /\ last'.op \in {"storeEntity", "getEntity", "updateEntity"})
        => LET kept == IdsOf(entityCache) \cap IdsOf(entityCache')
               evicted == IdsOf(entityCache) \ IdsOf(entityCache')
               added == IdsOf(entityCache') \ IdsOf(entityCache)
           IN  /\ \A a \in evicted, b \in kept :
                    Position(entityCache, a) < Position(entityCache, b)
               /\ \A a, b \in kept :
                    Position(entityCache, a) < Position(entityCache, b)
                        => Position(entityCache', a) < Position(entityCache', b)
               /\ \A a \in kept, b \in added :
                    Position(entityCache', a) < Position(entityCache', b)
               /\ Cardinality(evicted)
                    = Max(0, Len(entityCache) + Cardinality(added) - maxCacheSize)
               /\ last'.id \in IdsOf(entityCache')]_vars

\* x was stored first and written again after y was stored; the store of z
\* then evicted x, not y
C20_Witness ==
    /\ last.op = "storeEntity" /\ last.ok /\ last.id = "z"
    /\ [i \in 1..Len(entityCache) |-> entityCache[i].id] = <<"y", "z">>
    /\ Path(SharedDir, "x") \in DOMAIN files
    /\ Path(SharedDir, "y") \in DOMAIN files
    /\ files[Path(SharedDir, "x")].updated > files[Path(SharedDir, "y")].created

(***************************************************************************)
(* The relationships' specification: create, update, delete and list over  *)
(* the graphs on disk, creating again with an id that exists included.     *)
(***************************************************************************)
MaxRelOps == 3

\* the default limit of listRelationships
RelListLimit == 100

RelCreateCalls ==
    { Rel("r1", "y", "z", "owns"), Rel("r4", "x", "x", "knows"),
      Rel("r4", "x", NoVal, "knows") }
RelUpdateCalls ==
    { [type |-> "owns"], [type |-> NoVal],
      [id |-> "r9", sourceId |-> "q", targetId |-> "q", created |-> 2, type |-> "likes"] }
RelListCalls ==
    { <<t, d, l, o>> : t \in {NoVal, "knows"}, d \in Directions,
                       l \in {1, RelListLimit}, o \in {0, 1} }

RelOps ==
    \/ \E r \in RelCreateCalls : CreateRelationship(r, NoVal)
    \/ \E i \in {"r1", "r4"}, u \in RelUpdateCalls : UpdateRelationship(i, u)
    \/ \E i \in {"r1", "r3"} : DeleteRelationship(i)
    \/ \E e \in {"x", "y"}, c \in RelListCalls :
            ListRelationships(e, c[1], c[2], c[3], c[4])
    \/ Restart

NextRel == ops < MaxRelOps /\ RelOps

SpecRel == InitGraph /\ [][NextRel]_vars

(***************************************************************************)
(* Properties of the relationships.                                        *)
(***************************************************************************)
\* the id is in the index's set of the key
InKey(index, k, id) == k \in DOMAIN index /\ id \in Range(index[k])

RelKept == {"id", "sourceId", "targetId", "created"}

\* C21 (update keeps the relationship's identity): an updateRelationship that
\* returns gives back, and leaves in the relationship's file, the id,
\* sourceId, targetId and created of the relationship it read, whatever the
\* updates carry; the type is the updates' when they give one; when the type
\* changed, the type index holds the id under the new type and no longer
\* under the old one; under every key the source and the target index hold
\* the id exactly when they held it before.
C21_UpdateKeepsIdentity ==
    [][(last'.op = "updateRelationship" /\ last'.ok /\ last'.n = last.n + 1)
        => LET id == last'.id
               before == getRelationship(relFiles, relationshipCache, id).rel
               after == last'.ent
               updates == last'.args
           IN  /\ \A f \in RelKept : after[f] = before[f]
               /\ relFiles'[id] = after
               /\ after.type = IF "type" \in DOMAIN updates /\ Truthy(updates.type)
                                THEN updates.type ELSE before.type
               /\ after.type # before.type
                    => /\ InKey(relIndices'.type, after.type, id)
                       /\ ~InKey(relIndices'.type, before.type, id)
               /\ \A k \in AllIds :
                    /\ InKey(relIndices'.source, k, id) <=> InKey(relIndices.source, k, id)
                    /\ InKey(relIndices'.target, k, id) <=> InKey(relIndices.target, k, id)
      ]_vars

\* an update that asked for another id, source, target and created, and
\* changed the type
C21_Witness ==
    /\ last.op = "updateRelationship" /\ last.ok
    /\ "sourceId" \in DOMAIN last.args
    /\ last.args.sourceId # last.ent.sourceId
    /\ last.args.id # last.ent.id
    /\ last.ent.type = "likes"
    /\ InKey(relIndices.type, "likes", last.id)

\* the relationships on disk the listing of the entity should hold
Listed(entityId, type, direction) ==
    { relFiles[i] : i \in
        { j \in DOMAIN relFiles :
            /\ \/ direction \in {"outgoing", "both"} /\ relFiles[j].sourceId = entityId
               \/ direction \in {"incoming", "both"} /\ relFiles[j].targetId = entityId
            /\ type = NoVal \/ relFiles[j].type = type } }

\* C22 (listing relationships): listRelationships(entityId, type, direction)
\* returns relationships that exist, have the entity as source (outgoing),
\* as target (incoming) or as either (both) and are of the type when one is
\* given; total is their number; from offset 0 with a limit no smaller than
\* total it returns all of them.
C22_ListExact ==
    last.op = "listRelationships" =>
        LET expected == Listed(last.id, last.list.type, last.args.direction)
            returned == Range(last.list.entities)
        IN  /\ returned \subseteq expected
            /\ last.list.total = Cardinality(expected)
            /\ (last.list.offset = 0 /\ last.list.limit >= last.list.total)
                    => returned = expected

(***************************************************************************)
(* The specification of findCommonConnections over the graphs on disk,     *)
(* after stores and reads that fill the entity cache.                      *)
(***************************************************************************)
MaxCommonOps == 3

\* the default limit of findCommonConnections
CommonDefaultLimit == 10

\* the default maxDepth of findCommonConnections
CommonDefaultDepth == 2

CommonStoreCalls == { <<WithId(Plain, "q"), "system">>, <<WithId(Plain, "q"), NoVal>> }
CommonIdCalls == { <<"x", "z">>, <<"x", "y">>, <<"x">> }

CommonOps ==
    \/ \E c \in CommonStoreCalls : StoreEntity(c[1], c[2], NoVal)
    \/ GetEntity("x", NoVal)
    \/ \E ids \in CommonIdCalls, maxDepth \in {CommonDefaultDepth, MaxDepth},
          limit \in {1, CommonDefaultLimit} :
            CommonStart(ids, AnyType, maxDepth, "both", limit)

NextCommon ==
    \/ ops < MaxCommonOps /\ CommonOps
    \/ \E k \in 1..2 : CommonStep(k)

SpecCommon == InitGraph /\ [][NextCommon]_vars

\* C23 (common connections): findCommonConnections with fewer than two ids
\* fails with the validation error; with two or more ids that all resolve it
\* returns entities that every traversal has in its result and that are none
\* of the given ids, each once, as many of them as the limit allows, in
\* ascending order of the sum (so of the average) of their distances in the
\* traversals, those left out being no nearer than those returned.
C23_CommonConnections ==
    last.op = "findCommonConnections" =>
        IF Len(last.args) < 2
        THEN ~last.ok /\ last.err = "At least two entity IDs are required"
        ELSE trav.pc = "commonDone" =>
            LET runs == trav.runs
                common == {id \in AllIds :
                            \A k \in 1..Len(runs) : id \in Range(runs[k].entities)}
                            \ Range(last.args)
                result == last.list.entities
            IN  /\ last.ok
                /\ Range(result) \subseteq common
                /\ Len(result) = Min(trav.limit, Cardinality(common))
                /\ \A i, j \in 1..Len(result) :
                        i < j => /\ result[i] # result[j]
                                 /\ TotalDistance(runs, 1, result[i])
                                        <= TotalDistance(runs, 1, result[j])
                /\ \A c \in common \ Range(result), r \in Range(result) :
                        TotalDistance(runs, 1, r) <= TotalDistance(runs, 1, c)

(***************************************************************************)
(* The specification of semantic search over the graphs on disk.           *)
(***************************************************************************)
MaxSemanticOps == 3

SemanticStoreCalls == { <<WithId(RedLarge, "x"), NoVal>>, <<WithId(Plain, "q"), NoVal>> }
SemanticOptionCalls ==
    { SemanticOptions(l, FALSE, 1) : l \in {1, SearchDefaultLimit} } \cup
    { SemanticOptions(l, TRUE, d) : l \in {1, 2}, d \in {1, 2} }

SemanticOps ==
    \/ \E c \in SemanticStoreCalls : StoreEntity(c[1], c[2], NoVal)
    \/ \E i \in {"x", "z"} : GetEntity(i, NoVal)
    \/ \E q \in {QAbBa, QShort}, o \in SemanticOptionCalls : SemanticSearch(q, o)

\* a behaviour ends with its search: a search changes the caches alone
NextSemantic == ops < MaxSemanticOps /\ last.op # "semanticSearch" /\ SemanticOps

SpecSemantic == InitGraph /\ [][NextSemantic]_vars

\* C24 (semantic search results): a semanticSearch that returns gives at most
\* limit results, no entity id twice, with includeRelated or without; a
\* result the search itself did not find has score 0.5 and related: true,
\* and a result the search found is not marked related.
C24_SemanticResults ==
    (last.op = "semanticSearch" /\ last.ok) =>
        LET results == last.search.results
        IN  /\ Len(results) <= last.args.opts.limit
            /\ \A i, j \in 1..Len(results) :
                    i # j => results[i].entityId # results[j].entityId
            /\ \A k \in 1..Len(results) :
                    IF results[k].entityId \in Range(last.args.found)
                    THEN ~results[k].related
                    ELSE results[k].related /\ results[k].score = Fraction(5, 10)

\* related entities were added where more entities are stored than the limit
\* admits: the results hold one of them beside one the search found
C24_Witness ==
    /\ last.op = "semanticSearch" /\ last.ok
    /\ last.args.opts.includeRelated
    /\ Len(last.search.results) = last.args.opts.limit
    /\ \E k \in 1..Len(last.search.results) : last.search.results[k].related
    /\ \E k \in 1..Len(last.search.results) : ~last.search.results[k].related
    /\ Cardinality(DOMAIN files) > last.args.opts.limit

(***************************************************************************)
(* The specification of requests over the socket, from an empty store.     *)
(***************************************************************************)
WireRequests ==
    { [NoRequest EXCEPT !.operation = "store_entity",
                        !.params = [NoParams EXCEPT !.entity = WithId(Plain, "x")]],
      [NoRequest EXCEPT !.operation = "store_entity",
                        !.params = [NoParams EXCEPT !.entity = WithId(Untyped, "y")]],
      [NoRequest EXCEPT !.operation = "store_entity"],
      [NoRequest EXCEPT !.operation = "get_entity", !.params = [NoParams EXCEPT !.id = "x"]],
      [NoRequest EXCEPT !.operation = "get_entity"],
      [NoRequest EXCEPT !.operation = "frobnicate"],
      [NoRequest EXCEPT !.operation = "constructor"],
      NoRequest }

NextWire ==
    \/ Connect
    \/ \E r \in WireRequests : SendRequest(r)
    \/ \E n \in 1..MaxRequests : ServerData(n)
    \/ HandlerRuns
    \/ Respond
    \/ \E n \in 1..MaxRequests : ClientData(n)

SpecWire == Init /\ [][NextWire]_vars

\* the socket's callbacks run when their event is there, and the handler a
\* request awaits completes
SpecWireLive ==
    /\ SpecWire
    /\ WF_vars(Connect)
    /\ WF_vars(\E n \in 1..MaxRequests : ServerData(n))
    /\ WF_vars(HandlerRuns)
    /\ WF_vars(Respond)
    /\ WF_vars(\E n \in 1..MaxRequests : ClientData(n))

\* C25 (dispatcher's answers): the response _handleRequest returned last is
\* {operation, result} for the request's operation or the tagged error
\* {error: true, message}; an operation that is missing or not one of the
\* server's handlers is answered by the tagged error with no handler called,
\* and a handler that threw is answered by the tagged error with its message.
C25_TaggedErrorOrResult ==
    wire.response # NoResponse =>
        /\ IF wire.response.error
           THEN wire.response.message # NoVal /\ wire.response.operation = NoVal
           ELSE wire.response.operation = wire.request.operation
        /\ wire.request.operation \notin HandlerNames
                => (wire.response.error /\ ~wire.invoked)
        /\ (wire.invoked /\ ~last.ok /\ wire.pc = "idle" /\ ops = wire.opsAt + 1)
                => (wire.response.error /\ wire.response.message = last.err)

\* C26 (request completion): once the reply to a request has arrived at the
\* client, the promise sendRequest returned for it is resolved or rejected.
C26_ReplySettlesPromise ==
    \A i \in RequestIds :
        (i \in wire.arrived) ~> (wire.promises[i] \in {"resolved", "rejected"})

\* the cache entry of an id, Blank when the cache holds none
CacheEntry(cache, id) == IF CacheHas(cache, id) THEN CacheGet(cache, id) ELSE Blank

\* C27 (delete is all-or-nothing): a deleteEntity that throws for an id some
\* file holds leaves the files, the indices in memory and on disk and the
\* cache entry of the id as they were.
C27_DeleteAllOrNothing ==
    [][(/\ ops' = ops + 1
        /\ last'.op = "deleteEntity"
        /\ ~last'.ok
        /\ \E p \in DOMAIN files : p.id = last'.id)
            => /\ files' = files
               /\ indices' = indices
               /\ indexFiles' = indexFiles
               /\ CacheEntry(entityCache', last'.id) = CacheEntry(entityCache, last'.id)]_vars

\* the files that hold an id
FilesHolding(fs, id) == {p \in DOMAIN fs : p.id = id}

\* C28 (update rewrites the entity's file): after an updateEntity with the
\* context omitted that returns, for an id one file held, one file holds the
\* id and a read with an empty cache returns the updated entity.
C28_UpdateRewritesFile ==
    [][(/\ ops' = ops + 1
        /\ last'.op = "updateEntity"
        /\ last'.ok
        /\ last'.context = NoVal
        /\ Cardinality(FilesHolding(files, last'.id)) = 1)
            => /\ Cardinality(FilesHolding(files', last'.id)) = 1
               /\ getEntity(files', dirs', <<>>, last'.id, NoVal).found
               /\ getEntity(files', dirs', <<>>, last'.id, NoVal).ent = last'.ent]_vars

\* the call of p has a write or an unlink of a relationship file in flight
RelationshipInFlight(p) == calls[p].pc \in {"relWriting", "relUnlinking"}

\* C29 (one write in flight per relationship file): no two createRelationship,
\* updateRelationship or deleteRelationship calls have a write or an unlink of
\* the same relationship's file in flight at once, and when two calls on one
\* id have both returned with no other call made, the id is in the indices
\* exactly when its file is on disk.
C29_OneRelationshipWriter ==
    \A p, q \in Callers :
        /\ (p # q /\ RelationshipInFlight(p) /\ RelationshipInFlight(q))
                => calls[p].id # calls[q].id
        /\ (/\ p # q /\ ops = 2
            /\ calls[p].pc = "returned" /\ calls[q].pc = "returned"
            /\ calls[p].op \in {"createRelationship", "updateRelationship",
                                 "deleteRelationship"}
            /\ calls[q].op \in {"createRelationship", "updateRelationship",
                                 "deleteRelationship"}
            /\ calls[p].id = calls[q].id)
                => (calls[p].id \in DOMAIN relFiles
                        <=> InIndex(relIndices.source, calls[p].id))

(***************************************************************************)
(* The specification of the file locks alone: operations arrive at         *)
(* _acquireLock without end, hold the lock for their writes and release it. *)
(***************************************************************************)
LockPaths == {Path(SharedDir, i) : i \in {"x", "y", "q"}}

\* an operation of caller p reaches await this._acquireLock(filePath)
LockArrive(p, filePath) ==
    /\ calls[p].pc = "idle"
    /\ \E a \in {_acquireLock(fileLocks, filePath)} :
        /\ fileLocks' = a.locks
        /\ calls' = [calls EXCEPT ![p] = [pc |-> a.pc, op |-> "acquire", path |-> filePath,
                                          waited |-> a.pc = "polling"]]
    /\ UNCHANGED <<files, dirs, indexFiles, entityCache, indices, graphVars, clock, ops,
                   last, stored, onlyStores, trav, wire>>

\* the timer of a waiting operation fires and it finds the lock free
LockPoll(p) == Poll(p) /\ UNCHANGED wire

\* the finally block of the holder: _releaseLock, and the operation is over
LockRelease(p) ==
    /\ calls[p].pc = "locked"
    /\ fileLocks' = _releaseLock(fileLocks, calls[p].path)
    /\ calls' = [calls EXCEPT ![p] = NoCall]
    /\ UNCHANGED <<files, dirs, indexFiles, entityCache, indices, graphVars, clock, ops,
                   last, stored, onlyStores, trav, wire>>

NextLock ==
    \/ \E p \in Callers, f \in LockPaths : LockArrive(p, f)
    \/ \E p \in Callers : LockPoll(p)
    \/ \E p \in Callers : LockRelease(p)
    \/ Tick

SpecLock == Init /\ [][NextLock]_vars

\* every holder releases, and the timer of every waiter goes on firing: a
\* waiter that finds the lock free at all its turns from some point on takes it
SpecLockLive ==
    /\ SpecLock
    /\ \A p \in Callers : WF_vars(LockRelease(p))
    /\ \A p \in Callers : WF_vars(LockPoll(p))

\* C30 (lock waiters make progress): an operation that waits for the lock of
\* its file path acquires it in the end, whatever operations arrive later.
C30_WaiterAcquires ==
    \A p \in Callers : (calls[p].pc = "polling") ~> (calls[p].pc = "locked")

\* the ids that survive the intersection and the removal of the given ids
Survivors == SelectSeq(CommonEntityIds(trav.runs), LAMBDA id : id \notin Range(trav.ids))

\* C31 (common connections have real distances): when the traversals of
\* findCommonConnections have returned, every id that survives the
\* intersection has in every traversal's paths an entry of distance 1 or
\* more, so the average never counts a missing distance as 0.
C31_SurvivorsHavePaths ==
    trav.pc = "commonDone" =>
        \A id \in Range(Survivors) : \A k \in 1..Len(trav.runs) :
            /\ id \in DOMAIN trav.runs[k].paths
            /\ trav.runs[k].paths[id].distance >= 1

\* two traversals have returned and an id survives that lies further from
\* one start than from the other
C31_Witness ==
    /\ trav.pc = "commonDone"
    /\ \E id \in Range(Survivors) :
            trav.runs[1].paths[id].distance # trav.runs[2].paths[id].distance

(***************************************************************************)
(* The specification of combined search over the graphs on disk.           *)
(***************************************************************************)
MaxSearchOps == 2

SearchOptionCalls ==
    { [NoOptions EXCEPT !.limit = l, !.offset = o] :
        l \in {1, 2, SearchDefaultLimit}, o \in {0, 1, 2} }

SearchOps ==
    \/ \E c \in SemanticStoreCalls : StoreEntity(c[1], c[2], NoVal)
    \/ \E q \in {QAbBa, QShort}, o \in SearchOptionCalls : Search(q, o)

\* a behaviour ends with its search: a search changes the cache alone
NextSearch == ops < MaxSearchOps /\ last.op # "search" /\ SearchOps

SpecSearch == InitGraph /\ [][NextSearch]_vars

\* C32 (combined search paginates like text search): a search for a string
\* returns the entity ids, in the order, and the total that searchByText
\* returns for the same query, limit and offset.
C32_SearchPaginatesLikeText ==
    (last.op = "search" /\ last.ok) =>
        /\ ResultIds(last.search.results) = last.args.text.ids
        /\ last.search.total = last.args.text.total

(***************************************************************************)
(* The specification of the client's connection: attempts that fail or     *)
(* succeed, sockets that close, requests sent meanwhile.                   *)
(***************************************************************************)
NextReconnect ==
    \/ Connect
    \/ ConnectFails
    \/ Disconnect
    \/ TimerFires
    \/ \E r \in WireRequests : SendRequest(r)

SpecReconnect == Init /\ [][NextReconnect]_vars

\* the request ids of a sequence of requests
RequestIdsOf(requests) == [k \in 1..Len(requests) |-> requests[k].requestId]

\* C33 (bounded reconnection): the timer makes at most maxReconnectAttempts
\* connection attempts in a row that fail; when the last of them has failed
\* 'reconnect_failed' is emitted once and no attempt is scheduled or under
\* way; a connect that succeeds sets the counter to 0 and writes the queued
\* requests to the socket in the order of their request ids.
C33_BoundedReconnection ==
    [][/\ wire'.reconnects <= maxReconnectAttempts
       /\ wire'.reconnectFailed <= 1
       /\ (wire'.reconnectFailed = 1)
            <=> (wire'.socket = "closed" /\ ~wire'.timer)
       /\ (wire'.reconnectFailed = 1) => wire'.reconnects = maxReconnectAttempts
       /\ (wire.socket = "connecting" /\ wire'.socket = "open")
            => /\ wire'.reconnectAttempts = 0
               /\ wire'.requestQueue = <<>>
               /\ wire'.toServer = wire.toServer \o wire.requestQueue
               /\ \A i, j \in 1..Len(wire.requestQueue) :
                    i < j => wire.requestQueue[i].requestId < wire.requestQueue[j].requestId
      ]_vars

\* every attempt has failed and 'reconnect_failed' was emitted, with two
\* requests waiting in the queue
C33_Witness ==
    /\ wire.reconnectFailed = 1
    /\ wire.reconnectAttempts = maxReconnectAttempts
    /\ Len(wire.requestQueue) = 2

(***************************************************************************)
(* The specification of the text index: storeEntity, updateEntity,         *)
(* deleteEntity, listEntities and getEntity calls that run to completion,  *)
(* and nothing else.                                                       *)
(***************************************************************************)
IndexOps ==
    \/ \E i \in Ids, c \in StoreCalls : StoreEntity(WithId(c[1], i), c[2], NoVal)
    \/ \E i \in Ids, c \in UpdateCalls : UpdateEntity(i, c[1], c[2])
    \/ \E i \in Ids, c \in {NoVal, "shared"} : DeleteEntity(i, c)
    \/ \E c \in ListCalls : ListEntities(c[1], c[2], c[3], c[4])
    \/ \E i \in Ids, c \in ReadContexts : GetEntity(i, c)

NextIndex ==
    \/ ops < MaxOps /\ IndexOps
    \/ Tick

SpecIndex == Init /\ [][NextIndex]_vars

\* the tokens of an entity's content, name and description
EntityTokens(entity) ==
    Range(_tokenizeText(entity.content)) \cup Range(_tokenizeText(entity.name))
        \cup Range(_tokenizeText(entity.description))

\* an id with no file is under no token of the text index, and an id held by
\* exactly one file is under a token exactly when that file's entity has the
\* token in its content, name or description
TextIndexExact(fs, idx) ==
    \A id \in Ids :
        LET held == {p \in DOMAIN fs : p.id = id}
            under == {t \in DOMAIN idx.text : id \in idx.text[t]}
        IN  /\ held = {} => under = {}
            /\ \A p \in held : held = {p} => under = EntityTokens(fs[p])

\* C34 (text index exactness): a storeEntity, updateEntity or deleteEntity
\* call that returns normally, made when the text index is exact, leaves it
\* exact: every id is under exactly the tokens of its stored entity's text.
C34_TextIndexExact ==
    [][(TextIndexExact(files, indices) /\ last'.ok)
            => TextIndexExact(files', indices')]_vars

\* C35 (relationship index accuracy): every id listed under a key of the
\* source index is a relationship on disk with that sourceId, every id
\* under a key of the target index one with that targetId, every id under a
\* key of the type index one with that type.
C35_RelIndexAccurate ==
    /\ \A k \in DOMAIN relIndices.source : \A id \in Range(relIndices.source[k]) :
            id \in DOMAIN relFiles /\ relFiles[id].sourceId = k
    /\ \A k \in DOMAIN relIndices.target : \A id \in Range(relIndices.target[k]) :
            id \in DOMAIN relFiles /\ relFiles[id].targetId = k
    /\ \A k \in DOMAIN relIndices.type : \A id \in Range(relIndices.type[k]) :
            id \in DOMAIN relFiles /\ relFiles[id].type = k

\* C36 (a relationship is listed once): the relationships listRelationships
\* returns have pairwise different ids, and when the page holds the whole
\* listing, total is the number of the relationships in it.
C36_ListedOnce ==
    last.op = "listRelationships" =>
        LET returned == last.list.entities
        IN  /\ \A i, j \in 1..Len(returned) : returned[i].id = returned[j].id => i = j
            /\ (last.list.offset = 0 /\ last.list.limit >= last.list.total)
                    => last.list.total = Cardinality({returned[i].id : i \in 1..Len(returned)})

\* C37 (unique ids in listings): the entities a listEntities call with no
\* context returns have pairwise different ids.
C37_ListedIdsUnique ==
    (last.op = "listEntities" /\ last.ok /\ last.context = NoVal) =>
        LET returned == last.list.entities
        IN  \A i, j \in 1..Len(returned) : returned[i].id = returned[j].id => i = j

\* C38 (cache transparency): a getEntity(id, context) call has the outcome
\* the same call has with an empty cache: both find the entity or neither
\* does, and the entity found is the same.
C38_CacheTransparent ==
    [][(last'.op = "getEntity" /\ last'.n = last.n + 1)
        => LET cold == getEntity(files, dirs, <<>>, last'.id, last'.context)
           IN  /\ cold.found = last'.ok
               /\ cold.found => cold.ent = last'.ent
      ]_vars

Broken == "broken"

RECURSIVE ChainEnd(_, _, _)
\* the entity the hops of the path lead to from cur, from the k-th hop on, each
\* hop following its relationship on disk in its direction; Broken when a hop
\* does not leave the entity reached
ChainEnd(path, k, cur) ==
    IF k > Len(path) THEN cur
    ELSE IF path[k].relationshipId \notin DOMAIN relFiles THEN Broken
    ELSE LET r == relFiles[path[k].relationshipId]
         IN  IF path[k].direction = "outgoing" /\ r.sourceId = cur
             THEN ChainEnd(path, k + 1, r.targetId)
             ELSE IF path[k].direction = "incoming" /\ r.targetId = cur
             THEN ChainEnd(path, k + 1, r.sourceId)
             ELSE Broken

\* the result of the traversal is well formed
WellFormed(t) ==
    /\ \A X \in Range(t.entities) :
        /\ X \in DOMAIN t.paths
        /\ Len(t.paths[X].path) = t.paths[X].distance
        /\ X = t.start => t.paths[X].distance = 0
        /\ ChainEnd(t.paths[X].path, 1, t.start) = X
        /\ \A k \in 1..Len(t.paths[X].path) :
            t.paths[X].path[k].relationshipId \in Range(t.relationships)
    /\ \A i, j \in 1..Len(t.relationships) :
            t.relationships[i] = t.relationships[j] => i = j

\* C40 (traversal result well-formedness): in the result of traverseGraph
\* every entity has a path entry whose length is its distance (0 for the
\* start), the hops form a chain of relationships from the start to the
\* entity, every relationship of a path is in relationships, and
\* relationships holds no id twice.
C40_TraversalWellFormed == trav.pc = "done" => WellFormed(trav)

\* the same, for traversals over accurate relationship indices
WellFormedOverAccurateIndex ==
    (trav.pc = "done" /\ C35_RelIndexAccurate) => WellFormed(trav)

====
